---------------------------- MODULE Spec2Model ----------------------------
(***************************************************************************)
(* State-machine model of the stratum 3D-tiles viewer component            *)
(* (CesiumViewerComponent).  The main specification, Spec, models the      *)
(* variant whose performance profile comes from the `eco` query parameter  *)
(* (src/unnamed/part_001).  SpecPointer restricts it to pointer tracking   *)
(* and the cursor; SpecLoad restricts it to loading, failure and framing,  *)
(* over every tileset URL and over a camera that works or throws;          *)
(* SpecProfile exercises the two profile application functions of that     *)
(* variant on their own; SpecNav adds the page's query string and the      *)
(* navigation the profile control asks for; SpecUI runs every handler that *)
(* writes the UI state or the load state.  SpecInMemory models the         *)
(* component of src/components/cesium-viewer.tsx, which holds the          *)
(* performance profile in memory (performanceMode) and writes the engine   *)
(* from its handlers; the other specifications leave performanceMode       *)
(* alone.                                                                  *)
(*                                                                         *)
(* Conventions:                                                            *)
(*  - real numbers are kept in thousandths (0.25 is 250, -0.5 is -500);    *)
(*  - engine objects are records keyed by the flattened field path         *)
(*    (scene.globe.show is field globe_show); the presence of an optional  *)
(*    sub-object (scene.skyBox, ...) is a boolean field of its own;        *)
(*  - a handler and the React effects its state change triggers form one   *)
(*    action (effects of a discrete event are flushed synchronously, in    *)
(*    declaration order).                                                  *)
(***************************************************************************)
EXTENDS Integers, Sequences, FiniteSets, TLC

VARIABLES
    mounted,          \* the component is mounted (effects and listeners live)
    viewerRef,        \* viewerRef.current is set
    destroyed,        \* viewer.isDestroyed()
    tilesetRef,       \* tilesetRef.current is set
    boundingSphere,   \* radius of tileset.boundingSphere, NoSphere if undefined
    isLoading,
    error,
    showGlobe,
    showWireframe,
    navMode,
    isPanDragging,
    isRotateDragging,
    searchParams,     \* value of the `eco` query parameter
    ecoMode,
    scene,            \* the engine's scene fields (and viewer.targetFrameRate)
    tileset,          \* the engine's tileset fields
    controller,       \* scene.screenSpaceCameraController
    containerCursor,  \* containerRef.current.style.cursor
    canvasCursor,     \* canvasRef.current.style.cursor
    pendingTimers,    \* framing timers scheduled and not yet fired
    scheduledTimers,  \* framing timers scheduled since mount
    callbacks,        \* tileset ready/error callbacks delivered since mount
    cameraMoves,      \* calls of camera.viewBoundingSphere
    lastMove,         \* arguments of the latest viewBoundingSphere call
    warnings,         \* console.warn calls made by zoomToTileset's catch block
    cameraFaulty,     \* the engine's viewBoundingSphere throws when called
    tilesetUrl,       \* the tilesetUrl prop, a sequence of characters
    lastPointer,      \* the latest pointer event handed to a listener
    listeners,        \* the registered pointer-listener sets: the mode each closes over
    query,            \* the page's query string, a sequence of key/value pairs
    pathname,         \* window.location.pathname
    href,             \* the navigation asked for through window.location.href
    performanceMode,  \* src/components/cesium-viewer.tsx: the profile held in memory
    startScene,       \* SpecProfile: the scene before any application
    startTileset,     \* SpecProfile: the tileset before any application
    trace             \* SpecProfile: the applications made, oldest first

vars == << mounted, viewerRef, destroyed, tilesetRef, boundingSphere,
           isLoading, error, showGlobe, showWireframe, navMode,
           isPanDragging, isRotateDragging, searchParams, ecoMode,
           scene, tileset, controller, containerCursor, canvasCursor,
           pendingTimers, scheduledTimers, callbacks, cameraMoves, lastMove,
           warnings, cameraFaulty, tilesetUrl, lastPointer, listeners,
           query, pathname, href, performanceMode,
           startScene, startTileset, trace >>

---------------------------------------------------------------------------
(* Bounds of the model.                                                    *)

MaxCallbacks == 2

MaxMoves == 2

MaxTrace == 6

---------------------------------------------------------------------------
(* Program constants.                                                      *)

\* Infinity (scene.maximumRenderTimeChange = Infinity), above every finite value used.
Infinity == 2147483647

NoSphere == 0

Radii == {40, 100}

NavigationModes == {"orbit", "pan", "zoom"}

NoParam == "<absent>"

EcoParamValues == {NoParam, "true", "false", "1"}

ErrorMessage == "Failed to load 3D tileset. Check if the data files exist."

NoError == "null"

BackgroundColor == "#0f172a"

ROTATE_CURSOR == "url(rotate-svg) 12 12, auto"

NAV_CURSORS == [orbit |-> "grab", pan |-> "grab", zoom |-> "zoom-in"]

\* Variant: Eco only when the parameter says true.
ecoModeFromSearchParams_trueOnly(p) == p = "true"

ecoModeFromSearchParams(p) ==
    IF p = "false" THEN FALSE
    ELSE IF p = "true" THEN TRUE
    ELSE TRUE

---------------------------------------------------------------------------
(* URLSearchParams: a query is a sequence of key/value pairs; its string   *)
(* form is the sequence of tokens key = value & key = value ...            *)

Param(key, value) == [k |-> key, v |-> value]

\* URLSearchParams.get: the first value of the key, or none.
URLSearchParamsGet(q, key) ==
    IF \E i \in 1..Len(q) : q[i].k = key
    THEN q[CHOOSE i \in 1..Len(q) : q[i].k = key /\ \A j \in 1..(i - 1) : q[j].k # key].v
    ELSE NoParam

\* The pairs of q whose key is not `key`, in order.
WithoutKey(q, key) == SelectSeq(q, LAMBDA x : x.k # key)

\* Variant: set appends a pair and keeps the pairs that are there.
URLSearchParamsSet_appends(q, key, value) == q \o << Param(key, value) >>

\* URLSearchParams.set: the first pair of the key gets the value and the
\* key's other pairs are dropped; a new key is appended.
URLSearchParamsSet(q, key, value) ==
    IF \E i \in 1..Len(q) : q[i].k = key
    THEN LET first == CHOOSE i \in 1..Len(q) :
                          q[i].k = key /\ \A j \in 1..(i - 1) : q[j].k # key
         IN  SubSeq(q, 1, first - 1) \o << Param(key, value) >> \o
             WithoutKey(SubSeq(q, first + 1, Len(q)), key)
    ELSE q \o << Param(key, value) >>

\* URLSearchParams.toString: key = value, joined by &.
URLSearchParamsToString(q) ==
    IF Len(q) = 0 THEN << >>
    ELSE [ i \in 1..(4 * Len(q) - 1) |->
             CASE i % 4 = 1 -> q[(i + 3) \div 4].k
               [] i % 4 = 2 -> "="
               [] i % 4 = 3 -> q[(i + 1) \div 4].v
               [] i % 4 = 0 -> "&" ]

\* new URLSearchParams(string): split at &, then at =.
URLSearchParamsParse(tokens) ==
    [ i \in 1..((Len(tokens) + 1) \div 4) |->
        Param(tokens[4 * i - 3], tokens[4 * i - 1]) ]

\* String(boolean).
BooleanToString(b) == IF b THEN "true" ELSE "false"

\* The query that holds the eco parameter alone, or nothing.
QueryOf(p) == IF p = NoParam THEN << >> ELSE << Param("eco", p) >>

\* The page the viewer is served on.
ViewPath == "/view/alpha"

Pathnames == {ViewPath, "/"}

\* Queries with other parameters, a repeated eco parameter and other spellings.
NavQueries ==
    { << >>,
      << Param("eco", "false") >>,
      << Param("eco", "true") >>,
      << Param("lang", "pt") >>,
      << Param("scene", "alpha"), Param("eco", "false"), Param("lang", "pt") >>,
      << Param("eco", "False"), Param("lang", "pt") >>,
      << Param("eco", "false"), Param("lang", "pt"), Param("eco", "true") >> }

\* No navigation has been asked for.
NoHref == [assigned |-> FALSE, path |-> "", search |-> << >>]


---------------------------------------------------------------------------
(* Strings the code takes apart are sequences of one-character strings.    *)

UpperCaseLetters == << "A", "B", "C", "D", "E", "F", "G", "H", "I", "J", "K", "L",
                     "M", "N", "O", "P", "Q", "R", "S", "T", "U", "V", "W", "X", "Y", "Z" >>

LowerCaseLetters == << "a", "b", "c", "d", "e", "f", "g", "h", "i", "j", "k", "l",
                     "m", "n", "o", "p", "q", "r", "s", "t", "u", "v", "w", "x", "y", "z" >>

\* The lower-case form of each upper-case letter, and the reverse.
LowerOf == [ c \in { UpperCaseLetters[i] : i \in 1..26 } |->
               LowerCaseLetters[CHOOSE i \in 1..26 : UpperCaseLetters[i] = c] ]

UpperOf == [ c \in { LowerCaseLetters[i] : i \in 1..26 } |->
               UpperCaseLetters[CHOOSE i \in 1..26 : LowerCaseLetters[i] = c] ]

toLowerCase(str) ==
    [ i \in 1..Len(str) |-> IF str[i] \in DOMAIN LowerOf THEN LowerOf[str[i]] ELSE str[i] ]

toUpperCase(str) ==
    [ i \in 1..Len(str) |-> IF str[i] \in DOMAIN UpperOf THEN UpperOf[str[i]] ELSE str[i] ]

\* The text the regular expression /\/tileset\.json$/i looks for.
TilesetJsonSuffix == << "/", "t", "i", "l", "e", "s", "e", "t", ".", "j", "s", "o", "n" >>

\* str ends with suffix, letters compared without regard to case.
EndsWithIgnoreCase(str, suffix) ==
    /\ Len(str) >= Len(suffix)
    /\ toLowerCase(SubSeq(str, Len(str) - Len(suffix) + 1, Len(str))) = toLowerCase(suffix)

PublicPrefix == << "p", "u", "b", "l", "i", "c", "/" >>

DEMO_TILESET_URL ==
    << "/", "d", "a", "t", "a", "/", "a", "l", "p", "h", "a", "/", 
       "t", "i", "l", "e", "s", "e", "t", ".", "j", "s", "o", "n" >>

\* The tileset URLs a page hands to the component.
TilesetUrls ==
    { DEMO_TILESET_URL,
      << "/", "d", "a", "t", "a", "/", "c", "o", "r", "u", "j", "e", "i", "r", "a", "/" >> \o
          << "t", "i", "l", "e", "s", "e", "t", ".", "j", "s", "o", "n" >>,
      << "/", "e", "r", "r", "o", "r", "/", "t", "i", "l", "e", "s", "e", 
         "t", ".", "j", "s", "o", "n" >>,
      << "d", "a", "t", "a", "/", "A", "l", "p", "h", "a", "/" >> \o
          << "T", "I", "L", "E", "S", "E", "T", ".", "J", "S", "O", "N" >>,
      << "/", "P", "O", "R", "T", "O", "/" >> \o
          << "t", "i", "l", "e", "s", "e", "t", ".", "j", "s", "o", "n" >>,
      << "a", "l", "p", "h", "a", "/", "t", "i", "l", "e", "s", "e", "t", 
         ".", "j", "s", "o", "n" >>,
      << "/", "d", "a", "t", "a", "/", "a", "l", "p", "h", "a", "/" >> }

\* The segment shown when the URL names none.
DefaultSegment == << "m", "o", "d", "e", "l" >>

\* segment.charAt(0).toUpperCase() + segment.slice(1)
Capitalize_keepsRest(segment) ==
    toUpperCase(SubSeq(segment, 1, 1)) \o SubSeq(segment, 2, Len(segment))

\* segment.charAt(0).toUpperCase() + segment.slice(1).toLowerCase()
Capitalize(segment) ==
    toUpperCase(SubSeq(segment, 1, 1)) \o toLowerCase(SubSeq(segment, 2, Len(segment)))

\* url.match(/\/([^/]+)\/tileset\.json$/i): the text before /tileset.json
\* must hold a slash followed by at least one character that is not a slash.
getSceneDisplayNameFromUrl(url) ==
    LET stem    == SubSeq(url, 1, Len(url) - Len(TilesetJsonSuffix))
        slashes == { i \in 1..Len(stem) : stem[i] = "/" }
        last    == CHOOSE i \in slashes : \A j \in slashes : j <= i
        match   == /\ EndsWithIgnoreCase(url, TilesetJsonSuffix)
                   /\ slashes # {}
                   /\ last < Len(stem)
        segment == IF match THEN SubSeq(stem, last + 1, Len(stem)) ELSE DefaultSegment
    IN  Capitalize(segment)

\* Variant: the leading slash is kept.
getDataPathFromUrl_keepsSlash(url) ==
    LET dir == IF EndsWithIgnoreCase(url, TilesetJsonSuffix)
               THEN SubSeq(url, 1, Len(url) - Len(TilesetJsonSuffix)) \o << "/" >>
               ELSE url
    IN  PublicPrefix \o dir

getDataPathFromUrl(url) ==
    LET path == IF Len(url) > 0 /\ Head(url) = "/" THEN Tail(url) ELSE url
        dir  == IF EndsWithIgnoreCase(path, TilesetJsonSuffix)
                THEN SubSeq(path, 1, Len(path) - Len(TilesetJsonSuffix)) \o << "/" >>
                ELSE path
    IN  PublicPrefix \o dir


---------------------------------------------------------------------------
(* The engine objects as the test doubles create them.                     *)

MockScene ==
    [ backgroundColor             |-> "null",
      globe_show                  |-> TRUE,
      globe_enableLighting        |-> FALSE,
      globe_showGroundAtmosphere  |-> FALSE,
      globe_depthTestAgainstTerrain |-> FALSE,
      skyBox                      |-> TRUE,
      skyBox_show                 |-> TRUE,
      skyAtmosphere               |-> TRUE,
      skyAtmosphere_show          |-> TRUE,
      sun                         |-> TRUE,
      sun_show                    |-> TRUE,
      moon                        |-> TRUE,
      moon_show                   |-> TRUE,
      fog_enabled                 |-> TRUE,
      fxaa_enabled                |-> TRUE,
      shadowMap_enabled           |-> FALSE,
      requestRenderMode           |-> FALSE,
      maximumRenderTimeChange     |-> 0,
      highDynamicRange            |-> TRUE,
      logarithmicDepthBuffer      |-> TRUE,
      useDepthPicking             |-> TRUE,
      pickTranslucentDepth        |-> FALSE,
      debugShowFramesPerSecond    |-> FALSE,
      targetFrameRate             |-> 60 ]

MockTileset ==
    [ debugWireframe                            |-> FALSE,
      maximumScreenSpaceError                   |-> 16,
      skipLevelOfDetail                         |-> FALSE,
      preferLeaves                              |-> FALSE,
      dynamicScreenSpaceError                   |-> FALSE,
      dynamicScreenSpaceErrorDensity            |-> 2,
      dynamicScreenSpaceErrorFactor             |-> 4000,
      dynamicScreenSpaceErrorHeightFalloff      |-> 250,
      foveatedScreenSpaceError                  |-> FALSE,
      foveatedConeSize                          |-> 100,
      foveatedMinimumScreenSpaceErrorRelaxation |-> 0,
      immediatelyLoadDesiredLevelOfDetail       |-> FALSE,
      cacheBytes                                |-> 512 * 1024 * 1024,
      maximumCacheOverflowBytes                 |-> 256 * 1024 * 1024,
      loadSiblings                              |-> TRUE ]

MockController ==
    [ rotateEventTypes         |-> << >>,
      translateEventTypes      |-> << >>,
      zoomEventTypes           |-> << >>,
      tiltEventTypes           |-> << >>,
      minimumZoomDistance      |-> 1,
      maximumZoomDistance      |-> 100000,
      inertiaZoom              |-> 500,
      zoomFactor               |-> 5,
      enableCollisionDetection |-> TRUE ]

---------------------------------------------------------------------------
(* Field writes.  A handler's assignments to an engine object are a        *)
(* sequence of writes, applied in order; a write guarded by                *)
(* `if (scene.x)` names the presence field x in g.                         *)

Always == "always"

W(field, value) == [f |-> field, v |-> value, g |-> Always]

WG(field, value, guard) == [f |-> field, v |-> value, g |-> guard]

Allowed(obj, w) == IF w.g = Always THEN TRUE ELSE obj[w.g]

RECURSIVE ApplyWrites(_, _)
ApplyWrites(obj, ws) ==
    IF Len(ws) = 0 THEN obj
    ELSE LET w == Head(ws)
         IN  ApplyWrites(IF Allowed(obj, w) THEN [obj EXCEPT ![w.f] = w.v] ELSE obj,
                         Tail(ws))

\* The writes of ws to fields other than the given ones.
Without(ws, fields) ==
    LET Keep(w) == w.f \notin fields
    IN  SelectSeq(ws, Keep)

\* The fields a sequence of writes assigns on obj.
WrittenFields(obj, ws) == { ws[i].f : i \in { j \in 1..Len(ws) : Allowed(obj, ws[j]) } }

---------------------------------------------------------------------------
(* The performance profile: what applyTilesetPerformance and               *)
(* applyScenePerformance assign, branch by branch.                         *)

TilesetWritesEco ==
         << W("maximumScreenSpaceError", 24),
            W("skipLevelOfDetail", TRUE),
            W("preferLeaves", TRUE),
            W("dynamicScreenSpaceError", TRUE),
            W("dynamicScreenSpaceErrorDensity", 2),
            W("dynamicScreenSpaceErrorFactor", 8000),
            W("dynamicScreenSpaceErrorHeightFalloff", 250),
            W("foveatedScreenSpaceError", TRUE),
            W("foveatedConeSize", 150),
            W("foveatedMinimumScreenSpaceErrorRelaxation", 0),
            W("immediatelyLoadDesiredLevelOfDetail", FALSE),
            W("cacheBytes", 256 * 1024 * 1024),
            W("maximumCacheOverflowBytes", 128 * 1024 * 1024),
            W("loadSiblings", FALSE) >>

TilesetWritesQuality ==
         << W("maximumScreenSpaceError", 4),
            W("skipLevelOfDetail", FALSE),
            W("preferLeaves", FALSE),
            W("dynamicScreenSpaceError", FALSE),
            W("foveatedScreenSpaceError", FALSE),
            W("immediatelyLoadDesiredLevelOfDetail", TRUE),
            W("cacheBytes", 1024 * 1024 * 1024),
            W("loadSiblings", TRUE) >>

\* Variant: the performance branch leaves the cache size and sibling loading alone.
TilesetWrites_ecoKeepsCache(highPerf) ==
    IF highPerf THEN Without(TilesetWritesEco, {"cacheBytes", "loadSiblings"})
    ELSE TilesetWritesQuality

TilesetWrites(highPerf) == IF highPerf THEN TilesetWritesEco ELSE TilesetWritesQuality

applyTilesetPerformance(ts, highPerf) == ApplyWrites(ts, TilesetWrites(highPerf))

SceneWritesEco(showGlobePref) ==
         << W("requestRenderMode", TRUE),
            W("maximumRenderTimeChange", Infinity),
            W("targetFrameRate", 60),
            W("fxaa_enabled", FALSE),
            W("fog_enabled", FALSE),
            W("highDynamicRange", FALSE),
            W("globe_show", showGlobePref),
            W("globe_enableLighting", FALSE),
            W("globe_showGroundAtmosphere", FALSE),
            W("globe_depthTestAgainstTerrain", FALSE),
            WG("skyBox_show", FALSE, "skyBox"),
            WG("skyAtmosphere_show", FALSE, "skyAtmosphere"),
            WG("sun_show", FALSE, "sun"),
            WG("moon_show", FALSE, "moon"),
            W("logarithmicDepthBuffer", FALSE),
            W("useDepthPicking", FALSE),
            W("pickTranslucentDepth", FALSE),
            W("shadowMap_enabled", FALSE),
            W("debugShowFramesPerSecond", FALSE) >>

SceneWritesQuality(showGlobePref) ==
         << W("requestRenderMode", FALSE),
            W("targetFrameRate", 60),
            W("fxaa_enabled", TRUE),
            W("fog_enabled", TRUE),
            W("highDynamicRange", TRUE),
            W("globe_enableLighting", TRUE),
            W("globe_show", showGlobePref),
            WG("skyBox_show", showGlobePref, "skyBox"),
            WG("skyAtmosphere_show", showGlobePref, "skyAtmosphere"),
            W("logarithmicDepthBuffer", TRUE),
            W("useDepthPicking", TRUE) >>

\* Variant: the performance branch does not touch the sky elements.
SceneWrites_ecoLeavesSky(highPerf, showGlobePref) ==
    IF highPerf
    THEN Without(SceneWritesEco(showGlobePref), {"skyBox_show", "skyAtmosphere_show"})
    ELSE SceneWritesQuality(showGlobePref)

\* Variant: the quality branch does not turn fog back on.
SceneWrites_qualityKeepsFog(highPerf, showGlobePref) ==
    IF highPerf THEN SceneWritesEco(showGlobePref)
    ELSE Without(SceneWritesQuality(showGlobePref), {"fog_enabled"})

\* Variant: the quality branch asks for 30 frames per second.
SceneWrites_qualityHalfRate(highPerf, showGlobePref) ==
    IF highPerf THEN SceneWritesEco(showGlobePref)
    ELSE Without(SceneWritesQuality(showGlobePref), {"targetFrameRate"})
         \o << W("targetFrameRate", 30) >>

SceneWrites(highPerf, showGlobePref) ==
    IF highPerf THEN SceneWritesEco(showGlobePref) ELSE SceneWritesQuality(showGlobePref)

applyScenePerformance(sc, highPerf, showGlobePref) ==
    ApplyWrites(sc, SceneWrites(highPerf, showGlobePref))

---------------------------------------------------------------------------
(* Navigation modes: the props handed to ScreenSpaceCameraController.      *)

Drag(type) == [eventType |-> type, modifier |-> "none"]

ModDrag(type, mod) == [eventType |-> type, modifier |-> mod]

zoomCommon == << Drag("WHEEL"), Drag("PINCH"), ModDrag("LEFT_DRAG", "CTRL") >>

\* Variant: the zoom mode gives no tilt list (the prop stays undefined).
controllerProps_zoomNoTilt(mode) ==
    CASE mode = "orbit" ->
           [ rotateEventTypes    |-> << Drag("LEFT_DRAG") >>,
             translateEventTypes |-> << Drag("RIGHT_DRAG"), ModDrag("LEFT_DRAG", "SHIFT") >>,
             zoomEventTypes      |-> zoomCommon,
             tiltEventTypes      |-> << Drag("MIDDLE_DRAG") >> ]
      [] mode = "pan" ->
           [ translateEventTypes |-> << Drag("LEFT_DRAG") >>,
             rotateEventTypes    |-> << Drag("RIGHT_DRAG") >>,
             zoomEventTypes      |-> zoomCommon,
             tiltEventTypes      |-> << Drag("MIDDLE_DRAG") >> ]
      [] mode = "zoom" ->
           [ zoomEventTypes      |-> << Drag("LEFT_DRAG"), Drag("WHEEL"), Drag("PINCH") >>,
             rotateEventTypes    |-> << Drag("RIGHT_DRAG") >>,
             translateEventTypes |-> << Drag("MIDDLE_DRAG") >> ]

\* Variant: the pan mode keeps the orbit mode's rotate and translate gestures.
controllerProps_panAsOrbit(mode) ==
    CASE mode \in {"orbit", "pan"} ->
           [ rotateEventTypes    |-> << Drag("LEFT_DRAG") >>,
             translateEventTypes |-> << Drag("RIGHT_DRAG"), ModDrag("LEFT_DRAG", "SHIFT") >>,
             zoomEventTypes      |-> zoomCommon,
             tiltEventTypes      |-> << Drag("MIDDLE_DRAG") >> ]
      [] mode = "zoom" ->
           [ zoomEventTypes      |-> << Drag("LEFT_DRAG"), Drag("WHEEL"), Drag("PINCH") >>,
             rotateEventTypes    |-> << Drag("RIGHT_DRAG") >>,
             translateEventTypes |-> << Drag("MIDDLE_DRAG") >>,
             tiltEventTypes      |-> << >> ]

\* Variant: in zoom mode the left drag also rotates.
controllerProps_zoomLeftRotates(mode) ==
    CASE mode = "orbit" ->
           [ rotateEventTypes    |-> << Drag("LEFT_DRAG") >>,
             translateEventTypes |-> << Drag("RIGHT_DRAG"), ModDrag("LEFT_DRAG", "SHIFT") >>,
             zoomEventTypes      |-> zoomCommon,
             tiltEventTypes      |-> << Drag("MIDDLE_DRAG") >> ]
      [] mode = "pan" ->
           [ translateEventTypes |-> << Drag("LEFT_DRAG") >>,
             rotateEventTypes    |-> << Drag("RIGHT_DRAG") >>,
             zoomEventTypes      |-> zoomCommon,
             tiltEventTypes      |-> << Drag("MIDDLE_DRAG") >> ]
      [] mode = "zoom" ->
           [ zoomEventTypes      |-> << Drag("LEFT_DRAG"), Drag("WHEEL"), Drag("PINCH") >>,
             rotateEventTypes    |-> << Drag("LEFT_DRAG"), Drag("RIGHT_DRAG") >>,
             translateEventTypes |-> << Drag("MIDDLE_DRAG") >>,
             tiltEventTypes      |-> << >> ]

controllerProps(mode) ==
    CASE mode = "orbit" ->
           [ rotateEventTypes    |-> << Drag("LEFT_DRAG") >>,
             translateEventTypes |-> << Drag("RIGHT_DRAG"), ModDrag("LEFT_DRAG", "SHIFT") >>,
             zoomEventTypes      |-> zoomCommon,
             tiltEventTypes      |-> << Drag("MIDDLE_DRAG") >> ]
      [] mode = "pan" ->
           [ translateEventTypes |-> << Drag("LEFT_DRAG") >>,
             rotateEventTypes    |-> << Drag("RIGHT_DRAG") >>,
             zoomEventTypes      |-> zoomCommon,
             tiltEventTypes      |-> << Drag("MIDDLE_DRAG") >> ]
      [] mode = "zoom" ->
           [ zoomEventTypes      |-> << Drag("LEFT_DRAG"), Drag("WHEEL"), Drag("PINCH") >>,
             rotateEventTypes    |-> << Drag("RIGHT_DRAG") >>,
             translateEventTypes |-> << Drag("MIDDLE_DRAG") >>,
             tiltEventTypes      |-> << >> ]

\* The fixed props of the ScreenSpaceCameraController element.
controllerFixedProps ==
    [ minimumZoomDistance      |-> 1,
      maximumZoomDistance      |-> 100000,
      inertiaZoom              |-> 500,
      zoomFactor               |-> 5,
      enableCollisionDetection |-> FALSE ]

\* ScreenSpaceCameraController assigns every prop that is not undefined and
\* leaves the controller's other fields as they are.
ApplyControllerProps(ctrl, props) ==
    [ k \in DOMAIN ctrl |-> IF k \in DOMAIN props THEN props[k] ELSE ctrl[k] ]

configureCameraControls(ctrl) ==
    [ ctrl EXCEPT !.enableCollisionDetection = FALSE,
                  !.minimumZoomDistance = 1,
                  !.maximumZoomDistance = 100000,
                  !.inertiaZoom = 500,
                  !.zoomFactor = 5 ]

\* Variant: in pan mode the rotate flag is looked at first.
Cursor_rotateFirst(mode, pan, rotate) ==
    IF mode = "pan"
    THEN IF rotate THEN ROTATE_CURSOR ELSE IF pan THEN "grabbing" ELSE "grab"
    ELSE NAV_CURSORS[mode]

\* The cursor the cursor effect computes.
Cursor(mode, pan, rotate) ==
    IF mode = "pan"
    THEN IF pan THEN "grabbing" ELSE IF rotate THEN ROTATE_CURSOR ELSE "grab"
    ELSE NAV_CURSORS[mode]

---------------------------------------------------------------------------
(* Initial state: the component has just mounted (first commit done, the   *)
(* cursor effect has run on the container); the engine has not yet handed  *)
(* over the viewer, and the tileset is still loading.                      *)

NoMove == [heading |-> 0, pitch |-> 0, range |-> 0]

\* No pointer event has reached a listener yet.
NoPointer == [event |-> "none", button |-> 0, mode |-> "pan"]

\* The pointer effect registers its five listeners (pointerdown, pointerup,
\* pointerleave and pointercancel on the container in the capture phase,
\* pointerup on the document); they close over the mode of that render.
addListeners(ls, mode) == Append(ls, mode)

\* Variant: the cleanup names the bubble phase and so removes nothing.
removeListeners_bubblePhase(ls, mode) == ls

\* The effect's cleanup removes the listeners that run of the effect added.
removeListeners(ls, mode) ==
    IF \E i \in DOMAIN ls : ls[i] = mode
    THEN LET i == CHOOSE k \in DOMAIN ls : ls[k] = mode /\ \A h \in DOMAIN ls : ls[h] = mode => k <= h
         IN  [n \in 1..(Len(ls) - 1) |-> IF n < i THEN ls[n] ELSE ls[n + 1]]
    ELSE ls

\* The state after mount, given the URL prop, the engine's camera and the
\* page's location.
MountState(url, faulty, q, path) ==
    /\ mounted = TRUE
    /\ viewerRef = FALSE
    /\ destroyed = FALSE
    /\ tilesetRef = FALSE
    /\ boundingSphere = NoSphere
    /\ isLoading = TRUE
    /\ error = NoError
    /\ showGlobe = FALSE
    /\ showWireframe = FALSE
    /\ navMode = "pan"
    /\ isPanDragging = FALSE
    /\ isRotateDragging = FALSE
    /\ searchParams = URLSearchParamsGet(q, "eco")
    /\ ecoMode = ecoModeFromSearchParams(searchParams)
    /\ scene = MockScene
    /\ tileset = MockTileset
    /\ controller = MockController
    /\ containerCursor = Cursor("pan", FALSE, FALSE)
    /\ canvasCursor = ""
    /\ pendingTimers = 0
    /\ scheduledTimers = 0
    /\ callbacks = 0
    /\ cameraMoves = 0
    /\ lastMove = NoMove
    /\ warnings = 0
    /\ cameraFaulty = faulty
    /\ tilesetUrl = url
    /\ lastPointer = NoPointer
    /\ listeners = addListeners(<< >>, "pan")
    /\ query = q
    /\ pathname = path
    /\ href = NoHref
    /\ performanceMode = TRUE
    /\ startScene = MockScene
    /\ startTileset = MockTileset
    /\ trace = << >>

\* The state after mount on the viewer's page, the query holding at most
\* the eco parameter.
InitState(url, faulty) ==
    \E p \in EcoParamValues : MountState(url, faulty, QueryOf(p), ViewPath)

\* The component mounted without a tilesetUrl prop, over a working camera.
Init == InitState(DEMO_TILESET_URL, FALSE)

uiVars == << showGlobe, showWireframe, navMode, isPanDragging, isRotateDragging,
             searchParams, ecoMode >>

loadVars == << tilesetRef, boundingSphere, isLoading, error, callbacks >>

cameraVars == << cameraMoves, lastMove, warnings >>

\* What the component is given and never writes: the URL prop and the engine's camera.
envVars == << tilesetUrl, cameraFaulty >>

pointerVars == << lastPointer >>

listenerVars == << listeners >>

navVars == << query, pathname, href >>

\* State of the component with the in-memory performance toggle only.
inMemoryVars == << performanceMode >>

timerVars == << pendingTimers, scheduledTimers >>

cursorVars == << containerCursor, canvasCursor >>

profileVars == << startScene, startTileset, trace >>

---------------------------------------------------------------------------
(* Effects.                                                                *)

\* useEffect [showGlobe]: globe visibility.
GlobeEffect(sc, sg) ==
    IF ~viewerRef \/ destroyed THEN sc
    ELSE ApplyWrites(sc, << W("globe_show", sg),
                            WG("skyBox_show", sg, "skyBox"),
                            WG("skyAtmosphere_show", sg, "skyAtmosphere") >>)

\* Variant: the wireframe flag is written without looking for a handle.
WireframeEffect_noGuard(ts, sw) == [ts EXCEPT !.debugWireframe = sw]

\* useEffect [showWireframe]: wireframe flag.
WireframeEffect(ts, sw) ==
    IF ~tilesetRef THEN ts ELSE [ts EXCEPT !.debugWireframe = sw]

\* useEffect [ecoMode, showGlobe, ...]: the scene half.
EcoEffectScene(sc, eco, sg) ==
    IF viewerRef /\ ~destroyed THEN applyScenePerformance(sc, eco, sg) ELSE sc

\* Variant: the effect leaves the tileset alone.
EcoEffectTileset_sceneOnly(ts, eco) == ts

\* useEffect [ecoMode, showGlobe, ...]: the tileset half.
EcoEffectTileset(ts, eco) ==
    IF tilesetRef THEN applyTilesetPerformance(ts, eco) ELSE ts

\* useEffect [navMode, isPanDragging, isRotateDragging]: cursor.
CursorEffect(mode, pan, rotate) ==
    /\ containerCursor' = Cursor(mode, pan, rotate)
    /\ canvasCursor' = IF viewerRef THEN Cursor(mode, pan, rotate) ELSE canvasCursor

\* Variant: the viewer is not looked for.
ZoomMoves_noViewerCheck == tilesetRef /\ boundingSphere # NoSphere

\* zoomToTileset moves the camera when viewer, tileset and bounding sphere exist.
ZoomMoves == viewerRef /\ tilesetRef /\ boundingSphere # NoSphere

\* The arguments zoomToTileset hands to viewBoundingSphere.
FramingMove == [heading |-> 0, pitch |-> -500, range |-> boundingSphere * 2500]

\* Variant: a failed camera call is reported as a load error.
zoomToTileset_failureSetsError ==
    IF ZoomMoves
    THEN /\ cameraMoves < MaxMoves
         /\ cameraMoves' = cameraMoves + 1
         /\ lastMove' = FramingMove
         /\ warnings' = IF cameraFaulty THEN warnings + 1 ELSE warnings
         /\ error' = IF cameraFaulty THEN ErrorMessage ELSE error
         /\ UNCHANGED isLoading
    ELSE UNCHANGED << cameraVars, isLoading, error >>

\* Variant: the range is twice the radius.
zoomToTileset_rangeTwiceRadius ==
    IF ZoomMoves
    THEN /\ cameraMoves < MaxMoves
         /\ cameraMoves' = cameraMoves + 1
         /\ lastMove' = [FramingMove EXCEPT !.range = boundingSphere * 2000]
         /\ warnings' = IF cameraFaulty THEN warnings + 1 ELSE warnings
         /\ UNCHANGED << isLoading, error >>
    ELSE UNCHANGED << cameraVars, isLoading, error >>

\* The camera call is made whether or not it throws; a throw is caught and
\* logged.  No React state is touched either way.
zoomToTileset ==
    IF ZoomMoves
    THEN /\ cameraMoves < MaxMoves
         /\ cameraMoves' = cameraMoves + 1
         /\ lastMove' = FramingMove
         /\ warnings' = IF cameraFaulty THEN warnings + 1 ELSE warnings
         /\ UNCHANGED << isLoading, error >>
    ELSE UNCHANGED << cameraVars, isLoading, error >>

---------------------------------------------------------------------------
(* What the component renders over the viewer.                             *)

LoadingOverlay == [visible |-> isLoading]

NoOverlay == [visible |-> FALSE, message |-> << >>, directory |-> << >>]

\* The error overlay: the message held in `error`, and the data directory.
ErrorOverlay ==
    IF error # NoError
    THEN [visible |-> TRUE, message |-> error, directory |-> getDataPathFromUrl(tilesetUrl)]
    ELSE NoOverlay

---------------------------------------------------------------------------
(* Actions.                                                                *)

\* Variant: the ref callback initialises the viewer on every render.
ViewerReady_everyRender ==
    /\ mounted
    /\ viewerRef' = TRUE
    /\ scene' = applyScenePerformance(
                    ApplyWrites(scene, << W("backgroundColor", BackgroundColor),
                                          W("globe_show", showGlobe) >>),
                    ecoMode, showGlobe)
    /\ controller' = ApplyControllerProps(configureCameraControls(controller),
                                          controllerProps(navMode) @@ controllerFixedProps)
    /\ canvasCursor' = IF navMode = "pan" THEN "grab" ELSE NAV_CURSORS[navMode]
    /\ UNCHANGED << mounted, destroyed, tileset, containerCursor >>
    /\ UNCHANGED << uiVars, loadVars, cameraVars, timerVars, profileVars, envVars, inMemoryVars, pointerVars, listenerVars, navVars >>

\* The Viewer ref callback sees the engine's viewer for the first time.
ViewerReady ==
    /\ mounted
    /\ ~viewerRef
    /\ viewerRef' = TRUE
    /\ scene' = applyScenePerformance(
                    ApplyWrites(scene, << W("backgroundColor", BackgroundColor),
                                          W("globe_show", showGlobe) >>),
                    ecoMode, showGlobe)
    /\ controller' = ApplyControllerProps(configureCameraControls(controller),
                                          controllerProps(navMode) @@ controllerFixedProps)
    /\ canvasCursor' = IF navMode = "pan" THEN "grab" ELSE NAV_CURSORS[navMode]
    /\ UNCHANGED << mounted, destroyed, tileset, containerCursor >>
    /\ UNCHANGED << uiVars, loadVars, cameraVars, timerVars, profileVars, envVars, inMemoryVars, pointerVars, listenerVars, navVars >>

\* The engine reports the tileset ready, with a bounding sphere or none.
TilesetReady(r) ==
    /\ mounted
    /\ callbacks < MaxCallbacks
    /\ callbacks' = callbacks + 1
    /\ tilesetRef' = TRUE
    /\ boundingSphere' = r
    /\ tileset' = applyTilesetPerformance(tileset, ecoMode)
    /\ isLoading' = FALSE
    /\ pendingTimers' = pendingTimers + 1
    /\ scheduledTimers' = scheduledTimers + 1
    /\ UNCHANGED << mounted, viewerRef, destroyed, error, scene, controller >>
    /\ UNCHANGED << uiVars, cameraVars, cursorVars, profileVars, envVars, inMemoryVars, pointerVars, listenerVars, navVars >>

\* Variant: the error handler leaves the loading flag set.
TilesetError_keepsLoading ==
    /\ mounted
    /\ callbacks < MaxCallbacks
    /\ callbacks' = callbacks + 1
    /\ error' = ErrorMessage
    /\ UNCHANGED << mounted, viewerRef, destroyed, tilesetRef, boundingSphere,
                    scene, tileset, controller, isLoading >>
    /\ UNCHANGED << uiVars, cameraVars, timerVars, cursorVars, profileVars, envVars, inMemoryVars,
                    pointerVars, listenerVars, navVars >>

\* The engine reports that the tileset failed to load.
TilesetError ==
    /\ mounted
    /\ callbacks < MaxCallbacks
    /\ callbacks' = callbacks + 1
    /\ isLoading' = FALSE
    /\ error' = ErrorMessage
    /\ UNCHANGED << mounted, viewerRef, destroyed, tilesetRef, boundingSphere,
                    scene, tileset, controller >>
    /\ UNCHANGED << uiVars, cameraVars, timerVars, cursorVars, profileVars, envVars, inMemoryVars, pointerVars, listenerVars, navVars >>

\* A framing timer set by handleTilesetReady fires.
TimerFire ==
    /\ pendingTimers > 0
    /\ pendingTimers' = pendingTimers - 1
    /\ zoomToTileset
    /\ UNCHANGED << mounted, viewerRef, destroyed, scene, tileset, controller,
                    scheduledTimers, tilesetRef, boundingSphere, callbacks >>
    /\ UNCHANGED << uiVars, cursorVars, profileVars, envVars, inMemoryVars, pointerVars, listenerVars, navVars >>

ResetCamera ==
    /\ mounted
    /\ zoomToTileset
    /\ UNCHANGED << mounted, viewerRef, destroyed, scene, tileset, controller,
                    tilesetRef, boundingSphere, callbacks >>
    /\ UNCHANGED << uiVars, timerVars, cursorVars, profileVars, envVars, inMemoryVars, pointerVars, listenerVars, navVars >>

\* Variant: showing or hiding the globe puts the navigation mode back to orbit.
ToggleGlobe_resetsMode ==
    /\ mounted
    /\ showGlobe' = ~showGlobe
    /\ navMode' = "orbit"
    /\ scene' = EcoEffectScene(GlobeEffect(scene, showGlobe'), ecoMode, showGlobe')
    /\ tileset' = EcoEffectTileset(tileset, ecoMode)
    /\ UNCHANGED << mounted, viewerRef, destroyed, controller, showWireframe,
                    isPanDragging, isRotateDragging, searchParams, ecoMode >>
    /\ UNCHANGED << loadVars, cameraVars, timerVars, cursorVars, profileVars, envVars, inMemoryVars, pointerVars, listenerVars, navVars >>

\* The globe button.
ToggleGlobe ==
    /\ mounted
    /\ showGlobe' = ~showGlobe
    /\ scene' = EcoEffectScene(GlobeEffect(scene, showGlobe'), ecoMode, showGlobe')
    /\ tileset' = EcoEffectTileset(tileset, ecoMode)
    /\ UNCHANGED << mounted, viewerRef, destroyed, controller, showWireframe, navMode,
                    isPanDragging, isRotateDragging, searchParams, ecoMode >>
    /\ UNCHANGED << loadVars, cameraVars, timerVars, cursorVars, profileVars, envVars, inMemoryVars, pointerVars, listenerVars, navVars >>

\* Variant: the wireframe button does nothing once the viewer is destroyed.
ToggleWireframe_needsLiveViewer ==
    /\ mounted
    /\ ~destroyed
    /\ showWireframe' = ~showWireframe
    /\ tileset' = WireframeEffect(tileset, showWireframe')
    /\ UNCHANGED << mounted, viewerRef, destroyed, scene, controller, showGlobe, navMode,
                    isPanDragging, isRotateDragging, searchParams, ecoMode >>
    /\ UNCHANGED << loadVars, cameraVars, timerVars, cursorVars, profileVars, envVars, inMemoryVars,
                    pointerVars, listenerVars, navVars >>

ToggleWireframe ==
    /\ mounted
    /\ showWireframe' = ~showWireframe
    /\ tileset' = WireframeEffect(tileset, showWireframe')
    /\ UNCHANGED << mounted, viewerRef, destroyed, scene, controller, showGlobe, navMode,
                    isPanDragging, isRotateDragging, searchParams, ecoMode >>
    /\ UNCHANGED << loadVars, cameraVars, timerVars, cursorVars, profileVars, envVars, inMemoryVars, pointerVars, listenerVars, navVars >>

\* A navigation-mode button is clicked.
SetNavMode(m) ==
    /\ mounted
    /\ m # navMode
    /\ navMode' = m
    /\ controller' = IF viewerRef
                     THEN ApplyControllerProps(controller,
                                               controllerProps(m) @@ controllerFixedProps)
                     ELSE controller
    /\ CursorEffect(m, isPanDragging, isRotateDragging)
    /\ listeners' = addListeners(removeListeners(listeners, navMode), m)
    /\ UNCHANGED << mounted, viewerRef, destroyed, scene, tileset, showGlobe, showWireframe,
                    isPanDragging, isRotateDragging, searchParams, ecoMode >>
    /\ UNCHANGED << loadVars, cameraVars, timerVars, profileVars, envVars, inMemoryVars, pointerVars, navVars >>

\* The search parameters change under the mounted component.
SearchParamsChange(p) ==
    /\ mounted
    /\ p # searchParams
    /\ query' = IF p = NoParam THEN WithoutKey(query, "eco")
                ELSE URLSearchParamsSet(query, "eco", p)
    /\ searchParams' = URLSearchParamsGet(query', "eco")
    /\ ecoMode' = ecoModeFromSearchParams(searchParams')
    /\ IF ecoMode' # ecoMode
       THEN /\ scene' = EcoEffectScene(scene, ecoMode', showGlobe)
            /\ tileset' = EcoEffectTileset(tileset, ecoMode')
       ELSE UNCHANGED << scene, tileset >>
    /\ UNCHANGED << mounted, viewerRef, destroyed, controller, showGlobe, showWireframe,
                    navMode, isPanDragging, isRotateDragging, pathname, href >>
    /\ UNCHANGED << loadVars, cameraVars, timerVars, cursorVars, profileVars, envVars, inMemoryVars,
                    pointerVars, listenerVars >>

\* The profile button is clicked: the page is asked to navigate to its own
\* path with eco set to the other profile.  No React state is set.
toggleEcoMode ==
    /\ mounted
    /\ href' = [assigned |-> TRUE,
                path     |-> pathname,
                search   |-> URLSearchParamsToString(
                                 URLSearchParamsSet(
                                     URLSearchParamsParse(URLSearchParamsToString(query)),
                                     "eco", BooleanToString(~ecoMode)))]
    /\ UNCHANGED << mounted, viewerRef, destroyed, scene, tileset, controller, query,
                    pathname >>
    /\ UNCHANGED << uiVars, loadVars, cameraVars, timerVars, cursorVars, profileVars,
                    envVars, inMemoryVars, pointerVars, listenerVars >>

\* The browser follows the navigation: the page is loaded anew at the
\* address asked for, and the component mounts there over a new engine.
FollowNavigation ==
    /\ href.assigned
    /\ query' = URLSearchParamsParse(href.search)
    /\ pathname' = href.path
    /\ href' = NoHref
    /\ mounted' = TRUE
    /\ viewerRef' = FALSE
    /\ destroyed' = FALSE
    /\ tilesetRef' = FALSE
    /\ boundingSphere' = NoSphere
    /\ isLoading' = TRUE
    /\ error' = NoError
    /\ showGlobe' = FALSE
    /\ showWireframe' = FALSE
    /\ navMode' = "pan"
    /\ isPanDragging' = FALSE
    /\ isRotateDragging' = FALSE
    /\ searchParams' = URLSearchParamsGet(query', "eco")
    /\ ecoMode' = ecoModeFromSearchParams(searchParams')
    /\ scene' = MockScene
    /\ tileset' = MockTileset
    /\ controller' = MockController
    /\ containerCursor' = Cursor("pan", FALSE, FALSE)
    /\ canvasCursor' = ""
    /\ pendingTimers' = 0
    /\ scheduledTimers' = 0
    /\ callbacks' = 0
    /\ cameraMoves' = 0
    /\ lastMove' = NoMove
    /\ warnings' = 0
    /\ lastPointer' = NoPointer
    /\ listeners' = addListeners(IF mounted THEN removeListeners(listeners, navMode)
                                            ELSE listeners, "pan")
    /\ UNCHANGED << profileVars, envVars, inMemoryVars >>

Buttons == {0, 1, 2}

\* Some registered pointerdown listener closes over the mode.
Closes(mode) == \E i \in DOMAIN listeners : listeners[i] = mode

PointerDown(button) ==
    /\ listeners # << >>
    /\ isPanDragging' = (isPanDragging \/ (Closes("pan") /\ button = 0))
    /\ isRotateDragging' = (isRotateDragging \/ (Closes("pan") /\ button = 2))
    /\ CursorEffect(navMode, isPanDragging', isRotateDragging')
    /\ lastPointer' = [event |-> "down", button |-> button, mode |-> navMode]
    /\ UNCHANGED << mounted, viewerRef, destroyed, scene, tileset, controller, showGlobe,
                    showWireframe, navMode, searchParams, ecoMode >>
    /\ UNCHANGED << loadVars, cameraVars, timerVars, profileVars, envVars, inMemoryVars, listenerVars, navVars >>

\* Variant: a release clears the pan flag only.
PointerUp_keepsRotate ==
    /\ listeners # << >>
    /\ isPanDragging' = FALSE
    /\ isRotateDragging' = isRotateDragging
    /\ CursorEffect(navMode, FALSE, isRotateDragging)
    /\ lastPointer' = [event |-> "up", button |-> 0, mode |-> navMode]
    /\ UNCHANGED << mounted, viewerRef, destroyed, scene, tileset, controller, showGlobe,
                    showWireframe, navMode, searchParams, ecoMode >>
    /\ UNCHANGED << loadVars, cameraVars, timerVars, profileVars, envVars, inMemoryVars, listenerVars, navVars >>

\* pointerup / pointerleave / pointercancel on the container, pointerup on the document.
PointerUp ==
    /\ listeners # << >>
    /\ isPanDragging' = FALSE
    /\ isRotateDragging' = FALSE
    /\ CursorEffect(navMode, FALSE, FALSE)
    /\ lastPointer' = [event |-> "up", button |-> 0, mode |-> navMode]
    /\ UNCHANGED << mounted, viewerRef, destroyed, scene, tileset, controller, showGlobe,
                    showWireframe, navMode, searchParams, ecoMode >>
    /\ UNCHANGED << loadVars, cameraVars, timerVars, profileVars, envVars, inMemoryVars, listenerVars, navVars >>

\* The engine marks the viewer destroyed.
EngineDestroyed ==
    /\ viewerRef
    /\ ~destroyed
    /\ destroyed' = TRUE
    /\ UNCHANGED << mounted, viewerRef, scene, tileset, controller >>
    /\ UNCHANGED << uiVars, loadVars, cameraVars, timerVars, cursorVars, profileVars, envVars, inMemoryVars, pointerVars, listenerVars, navVars >>

\* The component unmounts: effects are cleaned up, refs and timers are left as they are.
Unmount ==
    /\ mounted
    /\ mounted' = FALSE
    /\ listeners' = removeListeners(listeners, navMode)
    /\ UNCHANGED << viewerRef, destroyed, scene, tileset, controller >>
    /\ UNCHANGED << uiVars, loadVars, cameraVars, timerVars, cursorVars, profileVars, envVars, inMemoryVars, pointerVars, navVars >>

Next ==
    \/ ViewerReady
    \/ \E r \in Radii \cup {NoSphere} : TilesetReady(r)
    \/ TilesetError
    \/ TimerFire
    \/ ResetCamera
    \/ ToggleGlobe
    \/ ToggleWireframe
    \/ \E m \in NavigationModes : SetNavMode(m)
    \/ \E p \in EcoParamValues : SearchParamsChange(p)
    \/ EngineDestroyed
    \/ Unmount

Spec == Init /\ [][Next]_vars

\* Pointer tracking and the cursor, with the operations that bear on them.
NextPointer ==
    \/ ViewerReady
    \/ \E m \in NavigationModes : SetNavMode(m)
    \/ \E b \in Buttons : PointerDown(b)
    \/ PointerUp
    \/ Unmount

SpecPointer == Init /\ [][NextPointer]_vars

\* Loading, failure and framing, over every tileset URL and over a camera
\* that works or throws.
InitLoad == \E url \in TilesetUrls, faulty \in BOOLEAN : InitState(url, faulty)

NextLoad ==
    \/ ViewerReady
    \/ \E r \in Radii \cup {NoSphere} : TilesetReady(r)
    \/ TilesetError
    \/ TimerFire
    \/ ResetCamera
    \/ ToggleWireframe
    \/ Unmount

SpecLoad == InitLoad /\ [][NextLoad]_vars

\* The profile and the page's address: the profile button, the navigation
\* it asks for, the search parameters, and the other controls, over every
\* query and pathname.
InitNav ==
    \E q \in NavQueries, path \in Pathnames : MountState(DEMO_TILESET_URL, FALSE, q, path)

NextNav ==
    \/ ViewerReady
    \/ EngineDestroyed
    \/ ToggleGlobe
    \/ ToggleWireframe
    \/ \E m \in NavigationModes : SetNavMode(m)
    \/ \E p \in EcoParamValues : SearchParamsChange(p)
    \/ toggleEcoMode
    \/ FollowNavigation

SpecNav == InitNav /\ [][NextNav]_vars

\* Every handler that writes a field of the UI state or the load state:
\* the toolbar, the pointer, the engine's callbacks and the search parameters,
\* from a page opened without an eco parameter.
InitUI == MountState(DEMO_TILESET_URL, FALSE, << >>, ViewPath)

NextUI ==
    \/ ViewerReady
    \/ TilesetReady(100)
    \/ TilesetError
    \/ ResetCamera
    \/ ToggleGlobe
    \/ ToggleWireframe
    \/ \E m \in NavigationModes : SetNavMode(m)
    \/ \E p \in {NoParam, "false"} : SearchParamsChange(p)
    \/ toggleEcoMode
    \/ \E b \in {0, 2} : PointerDown(b)
    \/ PointerUp

SpecUI == InitUI /\ [][NextUI]_vars

---------------------------------------------------------------------------
(* src/components/cesium-viewer.tsx: the component that holds the          *)
(* performance profile in memory.  Its handlers write the engine           *)
(* themselves (no effect stands between a button and the scene), it starts *)
(* in orbit mode, and it never asks the viewer whether it is destroyed.    *)
(* Its tileset profile is that of applyTilesetPerformance above.           *)

\* Variant: the pan cursor is the orbit cursor.
InMemoryCursors_panGrab == [orbit |-> "grab", pan |-> "grab", zoom |-> "zoom-in"]

\* The cursor effect's table.
InMemoryCursors == [orbit |-> "grab", pan |-> "move", zoom |-> "zoom-in"]

InMemorySceneWritesPerformance ==
         << W("requestRenderMode", TRUE),
            W("maximumRenderTimeChange", Infinity),
            W("targetFrameRate", 60),
            W("fxaa_enabled", FALSE),
            W("fog_enabled", FALSE),
            W("highDynamicRange", FALSE),
            W("globe_show", FALSE),
            W("globe_enableLighting", FALSE),
            W("globe_showGroundAtmosphere", FALSE),
            W("globe_depthTestAgainstTerrain", FALSE),
            WG("skyBox_show", FALSE, "skyBox"),
            WG("skyAtmosphere_show", FALSE, "skyAtmosphere"),
            WG("sun_show", FALSE, "sun"),
            WG("moon_show", FALSE, "moon"),
            W("logarithmicDepthBuffer", FALSE),
            W("useDepthPicking", FALSE),
            W("pickTranslucentDepth", FALSE),
            W("shadowMap_enabled", FALSE),
            W("debugShowFramesPerSecond", FALSE) >>

InMemorySceneWritesQuality ==
         << W("requestRenderMode", FALSE),
            W("targetFrameRate", 60),
            W("fxaa_enabled", TRUE),
            W("fog_enabled", TRUE),
            W("highDynamicRange", TRUE),
            W("globe_enableLighting", TRUE),
            W("logarithmicDepthBuffer", TRUE),
            W("useDepthPicking", TRUE) >>

\* Variant: the quality branch leaves the render mode as it is.
InMemorySceneWrites_qualityKeepsRenderMode(highPerf) ==
    IF highPerf THEN InMemorySceneWritesPerformance
    ELSE Without(InMemorySceneWritesQuality, {"requestRenderMode"})

InMemorySceneWrites(highPerf) ==
    IF highPerf THEN InMemorySceneWritesPerformance ELSE InMemorySceneWritesQuality

\* applyScenePerformance(viewer, highPerf)
InMemoryApplyScenePerformance(sc, highPerf) == ApplyWrites(sc, InMemorySceneWrites(highPerf))

\* configureCameraControls(viewer, mode): the four binding lists are emptied
\* and then given by the mode; the zoom settings follow.
InMemoryConfigureCameraControls(ctrl, mode) ==
    LET emptied == [ ctrl EXCEPT !.rotateEventTypes = << >>,
                                 !.translateEventTypes = << >>,
                                 !.zoomEventTypes = << >>,
                                 !.tiltEventTypes = << >> ]
        bound   == CASE mode = "orbit" ->
                          [ emptied EXCEPT
                              !.rotateEventTypes = << Drag("LEFT_DRAG") >>,
                              !.translateEventTypes =
                                  << Drag("RIGHT_DRAG"), ModDrag("LEFT_DRAG", "SHIFT") >>,
                              !.zoomEventTypes =
                                  << Drag("WHEEL"), Drag("PINCH"), ModDrag("LEFT_DRAG", "CTRL") >>,
                              !.tiltEventTypes = << Drag("MIDDLE_DRAG") >> ]
                     [] mode = "pan" ->
                          [ emptied EXCEPT
                              !.translateEventTypes = << Drag("LEFT_DRAG") >>,
                              !.rotateEventTypes = << Drag("RIGHT_DRAG") >>,
                              !.zoomEventTypes =
                                  << Drag("WHEEL"), Drag("PINCH"), ModDrag("LEFT_DRAG", "CTRL") >>,
                              !.tiltEventTypes = << Drag("MIDDLE_DRAG") >> ]
                     [] mode = "zoom" ->
                          [ emptied EXCEPT
                              !.zoomEventTypes =
                                  << Drag("LEFT_DRAG"), Drag("WHEEL"), Drag("PINCH") >>,
                              !.rotateEventTypes = << Drag("RIGHT_DRAG") >>,
                              !.translateEventTypes = << Drag("MIDDLE_DRAG") >>,
                              !.tiltEventTypes = << >> ]
    IN  [ bound EXCEPT !.minimumZoomDistance = 1,
                       !.maximumZoomDistance = 100000,
                       !.inertiaZoom = 500,
                       !.zoomFactor = 5 ]

\* The radius of the bounding sphere the engine's tileset comes with.
InMemoryRadius == 100

\* The state after mount: orbit mode, performance mode on, the cursor effect
\* has run on the container.
InitInMemory ==
    /\ mounted = TRUE
    /\ viewerRef = FALSE
    /\ destroyed = FALSE
    /\ tilesetRef = FALSE
    /\ boundingSphere = NoSphere
    /\ isLoading = TRUE
    /\ error = NoError
    /\ showGlobe = FALSE
    /\ showWireframe = FALSE
    /\ navMode = "orbit"
    /\ performanceMode = TRUE
    /\ isPanDragging = FALSE
    /\ isRotateDragging = FALSE
    /\ searchParams = NoParam
    /\ ecoMode = TRUE
    /\ scene = MockScene
    /\ tileset = MockTileset
    /\ controller = MockController
    /\ containerCursor = InMemoryCursors["orbit"]
    /\ canvasCursor = ""
    /\ pendingTimers = 0
    /\ scheduledTimers = 0
    /\ callbacks = 0
    /\ cameraMoves = 0
    /\ lastMove = NoMove
    /\ warnings = 0
    /\ cameraFaulty = FALSE
    /\ tilesetUrl = DEMO_TILESET_URL
    /\ lastPointer = NoPointer
    /\ listeners = << >>
    /\ query = << >>
    /\ pathname = ViewPath
    /\ href = NoHref
    /\ startScene = MockScene
    /\ startTileset = MockTileset
    /\ trace = << >>

\* What no handler of this component writes.
inMemoryFrame == << mounted, destroyed, isPanDragging, isRotateDragging, searchParams,
                    ecoMode, canvasCursor, cameraVars, envVars, pointerVars, listenerVars, navVars,
                    profileVars >>

\* The Viewer ref callback sees the engine's viewer for the first time:
\* handleViewerReady.
InMemoryViewerReady ==
    /\ mounted
    /\ ~viewerRef
    /\ viewerRef' = TRUE
    /\ scene' = InMemoryApplyScenePerformance(
                    ApplyWrites(scene, << W("backgroundColor", BackgroundColor),
                                          W("globe_show", showGlobe) >>),
                    performanceMode)
    /\ controller' = [ InMemoryConfigureCameraControls(controller, navMode)
                           EXCEPT !.enableCollisionDetection = FALSE ]
    /\ UNCHANGED << tileset, showGlobe, showWireframe, navMode, performanceMode,
                    containerCursor, loadVars, timerVars, inMemoryFrame >>

\* handleTilesetReady
InMemoryTilesetReady ==
    /\ mounted
    /\ callbacks < MaxCallbacks
    /\ callbacks' = callbacks + 1
    /\ tilesetRef' = TRUE
    /\ boundingSphere' = InMemoryRadius
    /\ tileset' = applyTilesetPerformance(tileset, performanceMode)
    /\ isLoading' = FALSE
    /\ pendingTimers' = pendingTimers + 1
    /\ scheduledTimers' = scheduledTimers + 1
    /\ UNCHANGED << viewerRef, scene, controller, error, showGlobe, showWireframe,
                    navMode, performanceMode, containerCursor, inMemoryFrame >>

\* toggleGlobe: the globe and the sky elements get the new value.
InMemoryToggleGlobe ==
    /\ mounted
    /\ showGlobe' = ~showGlobe
    /\ scene' = IF viewerRef
                THEN ApplyWrites(scene, << W("globe_show", showGlobe'),
                                           WG("skyBox_show", showGlobe', "skyBox"),
                                           WG("skyAtmosphere_show", showGlobe', "skyAtmosphere") >>)
                ELSE scene
    /\ UNCHANGED << viewerRef, tileset, controller, showWireframe, navMode,
                    performanceMode, containerCursor, loadVars, timerVars, inMemoryFrame >>

\* toggleWireframe
InMemoryToggleWireframe ==
    /\ mounted
    /\ showWireframe' = ~showWireframe
    /\ tileset' = IF tilesetRef THEN [tileset EXCEPT !.debugWireframe = showWireframe']
                  ELSE tileset
    /\ UNCHANGED << viewerRef, scene, controller, showGlobe, navMode,
                    performanceMode, containerCursor, loadVars, timerVars, inMemoryFrame >>

\* togglePerformanceMode
InMemoryTogglePerformanceMode ==
    /\ mounted
    /\ performanceMode' = ~performanceMode
    /\ scene' = IF viewerRef THEN InMemoryApplyScenePerformance(scene, performanceMode')
                ELSE scene
    /\ tileset' = IF tilesetRef THEN applyTilesetPerformance(tileset, performanceMode')
                  ELSE tileset
    /\ UNCHANGED << viewerRef, controller, showGlobe, showWireframe, navMode,
                    containerCursor, loadVars, timerVars, inMemoryFrame >>

\* A navigation-mode button, with the two effects on [navMode]: the camera
\* controls of a viewer that is there, and the container's cursor.
InMemorySetNavMode(m) ==
    /\ mounted
    /\ m # navMode
    /\ navMode' = m
    /\ controller' = IF viewerRef THEN InMemoryConfigureCameraControls(controller, m)
                     ELSE controller
    /\ containerCursor' = InMemoryCursors[m]
    /\ UNCHANGED << viewerRef, scene, tileset, showGlobe, showWireframe,
                    performanceMode, loadVars, timerVars, inMemoryFrame >>

NextInMemory ==
    \/ InMemoryViewerReady
    \/ InMemoryTilesetReady
    \/ InMemoryToggleGlobe
    \/ InMemoryToggleWireframe
    \/ InMemoryTogglePerformanceMode
    \/ \E m \in NavigationModes : InMemorySetNavMode(m)

SpecInMemory == InitInMemory /\ [][NextInMemory]_vars

---------------------------------------------------------------------------
(* The profile functions on their own: from a starting engine state, the   *)
(* tileset bundle and the scene bundle are applied in any order, with any  *)
(* profile, and the applications are recorded.                             *)

\* A tileset left by other settings than the test double's.
OtherTileset ==
    [ MockTileset EXCEPT !.maximumScreenSpaceError = 8,
                         !.skipLevelOfDetail = TRUE,
                         !.dynamicScreenSpaceErrorDensity = 5,
                         !.dynamicScreenSpaceErrorFactor = 24000,
                         !.dynamicScreenSpaceErrorHeightFalloff = 500,
                         !.foveatedConeSize = 300,
                         !.foveatedMinimumScreenSpaceErrorRelaxation = 1000,
                         !.immediatelyLoadDesiredLevelOfDetail = TRUE,
                         !.cacheBytes = 64 * 1024 * 1024,
                         !.maximumCacheOverflowBytes = 512 * 1024 * 1024,
                         !.loadSiblings = FALSE ]

\* A scene with shadows on, no sun and moon, and other render settings.
OtherScene ==
    [ MockScene EXCEPT !.sun = FALSE,
                       !.moon = FALSE,
                       !.shadowMap_enabled = TRUE,
                       !.globe_showGroundAtmosphere = TRUE,
                       !.globe_depthTestAgainstTerrain = TRUE,
                       !.pickTranslucentDepth = TRUE,
                       !.debugShowFramesPerSecond = TRUE,
                       !.maximumRenderTimeChange = 500,
                       !.targetFrameRate = 30,
                       !.requestRenderMode = TRUE ]

StartTilesets == {MockTileset, OtherTileset}

StartScenes == {MockScene, OtherScene}

InitProfile ==
    /\ mounted = TRUE
    /\ viewerRef = TRUE
    /\ destroyed = FALSE
    /\ tilesetRef = TRUE
    /\ boundingSphere = NoSphere
    /\ isLoading = FALSE
    /\ error = NoError
    /\ showGlobe \in BOOLEAN
    /\ showWireframe = FALSE
    /\ navMode = "pan"
    /\ isPanDragging = FALSE
    /\ isRotateDragging = FALSE
    /\ searchParams = NoParam
    /\ ecoMode = TRUE
    /\ scene \in StartScenes
    /\ tileset \in StartTilesets
    /\ controller = MockController
    /\ containerCursor = Cursor("pan", FALSE, FALSE)
    /\ canvasCursor = ""
    /\ pendingTimers = 0
    /\ scheduledTimers = 0
    /\ callbacks = 0
    /\ cameraMoves = 0
    /\ lastMove = NoMove
    /\ warnings = 0
    /\ cameraFaulty = FALSE
    /\ tilesetUrl = DEMO_TILESET_URL
    /\ lastPointer = NoPointer
    /\ listeners = << >>
    /\ query = << >>
    /\ pathname = ViewPath
    /\ href = NoHref
    /\ performanceMode = TRUE
    /\ startScene = scene
    /\ startTileset = tileset
    /\ trace = << >>

profileFrame == << mounted, viewerRef, destroyed, controller, uiVars, loadVars,
                   cameraVars, timerVars, cursorVars, envVars, inMemoryVars, pointerVars, listenerVars, navVars,
                   startScene, startTileset >>

ProfileApplyTileset(highPerf) ==
    /\ Len(trace) < MaxTrace
    /\ tileset' = applyTilesetPerformance(tileset, highPerf)
    /\ trace' = Append(trace, [bundle |-> "tileset", highPerf |-> highPerf])
    /\ UNCHANGED << scene, profileFrame >>

ProfileApplyScene(highPerf) ==
    /\ Len(trace) < MaxTrace
    /\ scene' = applyScenePerformance(scene, highPerf, showGlobe)
    /\ trace' = Append(trace, [bundle |-> "scene", highPerf |-> highPerf])
    /\ UNCHANGED << tileset, profileFrame >>

NextProfile ==
    \/ \E h \in BOOLEAN : ProfileApplyTileset(h)
    \/ \E h \in BOOLEAN : ProfileApplyScene(h)

SpecProfile == InitProfile /\ [][NextProfile]_vars

\* The profiles applied to one bundle, oldest first.
RECURSIVE Applied(_, _)
Applied(t, bundle) ==
    IF Len(t) = 0 THEN << >>
    ELSE IF Head(t).bundle = bundle
         THEN << Head(t).highPerf >> \o Applied(Tail(t), bundle)
         ELSE Applied(Tail(t), bundle)


---------------------------------------------------------------------------
(* Properties of the readiness callbacks and the framing timer (Spec).     *)

\* C1: within one mount at most one camera-framing timer is scheduled,
\* whatever ready/error callbacks arrive.
C1_AtMostOneFramingTimer == scheduledTimers <= 1

\* C2: the viewer is never at once Ready (asset handle stored) and Failed
\* (error message set): the first ready or error transition is final.
C2_ReadyAndFailedExclusive == ~(tilesetRef /\ error # NoError)

\* C3: once the component has unmounted, no step moves the camera or writes
\* a field of the scene or the tileset (a pending framing timer is cancelled).
C3_NoEngineAccessAfterUnmount ==
    [][~mounted => /\ cameraMoves' = cameraMoves
                   /\ scene' = scene
                   /\ tileset' = tileset]_vars

\* C4: while the viewer reports itself destroyed, no operation of the
\* component (every step but the engine's ready/error callbacks) writes a
\* scene or tileset field or moves the camera.
C4_DestroyedViewerUntouched ==
    [][(destroyed /\ callbacks' = callbacks) => /\ cameraMoves' = cameraMoves
                                                /\ scene' = scene
                                                /\ tileset' = tileset]_vars

---------------------------------------------------------------------------
(* Globe and sky visibility (Spec).                                        *)

\* C5: with a live viewer, the globe is shown iff showGlobe, and the sky box
\* and sky atmosphere are shown iff showGlobe and the profile is Quality.
C5_GlobeAndSkyVisibility ==
    (viewerRef /\ ~destroyed) =>
        /\ scene.globe_show = showGlobe
        /\ scene.skyBox_show = (showGlobe /\ ~ecoMode)
        /\ scene.skyAtmosphere_show = (showGlobe /\ ~ecoMode)

\* C5 witness: Eco with the globe shown and a live viewer: sky off, globe on.
C5_Witness ==
    /\ viewerRef /\ ~destroyed
    /\ ecoMode /\ showGlobe
    /\ scene.globe_show /\ ~scene.skyBox_show /\ ~scene.skyAtmosphere_show

---------------------------------------------------------------------------
(* Navigation-mode bindings (Spec).                                        *)

BindingLists == {"rotateEventTypes", "translateEventTypes", "zoomEventTypes",
                 "tiltEventTypes"}

Range(seq) == { seq[i] : i \in 1..Len(seq) }

\* The gestures a binding list holds without a modifier key.
Unmodified(list) == { b.eventType : b \in { x \in Range(list) : x.modifier = "none" } }

\* What a newly created controller holds once the props of one mode are applied.
FreshlyConfigured(mode) == ApplyControllerProps(MockController, controllerProps(mode))

\* C6: with a live controller, the four binding lists are those a newly
\* created controller gets from the current mode alone: nothing of an
\* earlier mode survives, and a mode chosen before mount is applied at mount.
C6_BindingsFunctionOfMode ==
    viewerRef => \A k \in BindingLists : controller[k] = FreshlyConfigured(navMode)[k]

\* C6 witness: zoom mode on a live controller, its tilt list empty.
C6_Witness ==
    /\ viewerRef
    /\ navMode = "zoom"
    /\ controller.tiltEventTypes = << >>
    /\ controller.translateEventTypes = << Drag("MIDDLE_DRAG") >>

\* The binding table of unmodified gestures, mode by mode.
BindingTable ==
    [ orbit |-> [ rotate |-> {"LEFT_DRAG"}, translate |-> {"RIGHT_DRAG"},
                  zoom |-> {"WHEEL", "PINCH"}, tilt |-> {"MIDDLE_DRAG"} ],
      pan   |-> [ rotate |-> {"RIGHT_DRAG"}, translate |-> {"LEFT_DRAG"},
                  zoom |-> {"WHEEL", "PINCH"}, tilt |-> {"MIDDLE_DRAG"} ],
      zoom  |-> [ rotate |-> {"RIGHT_DRAG"}, translate |-> {"MIDDLE_DRAG"},
                  zoom |-> {"LEFT_DRAG", "WHEEL", "PINCH"}, tilt |-> {} ] ]

\* C7: in each mode the unmodified gestures bound on the live controller are
\* those of the binding table.
C7_UnmodifiedBindingsMatchTable ==
    viewerRef =>
        /\ Unmodified(controller.rotateEventTypes) = BindingTable[navMode].rotate
        /\ Unmodified(controller.translateEventTypes) = BindingTable[navMode].translate
        /\ Unmodified(controller.zoomEventTypes) = BindingTable[navMode].zoom
        /\ Unmodified(controller.tiltEventTypes) = BindingTable[navMode].tilt

\* C7 witness: orbit mode on a live controller, left-drag rotating.
C7_Witness ==
    /\ viewerRef
    /\ navMode = "orbit"
    /\ Unmodified(controller.rotateEventTypes) = {"LEFT_DRAG"}

\* C8: in every mode the live controller's translate list holds shift+left-drag
\* and its zoom list holds ctrl+left-drag.
C8_ModifierBindingsInEveryMode ==
    viewerRef =>
        /\ ModDrag("LEFT_DRAG", "SHIFT") \in Range(controller.translateEventTypes)
        /\ ModDrag("LEFT_DRAG", "CTRL") \in Range(controller.zoomEventTypes)

---------------------------------------------------------------------------
(* Properties of the profile functions (SpecProfile).                      *)

\* C9: Eco, then Quality, then Eco leaves the tileset and the scene as one
\* application of Eco to the starting state does.
C9_ProfileRoundTrip ==
    /\ Applied(trace, "tileset") = << TRUE, FALSE, TRUE >>
           => tileset = applyTilesetPerformance(startTileset, TRUE)
    /\ Applied(trace, "scene") = << TRUE, FALSE, TRUE >>
           => scene = applyScenePerformance(startScene, TRUE, showGlobe)

\* C9 witness: both bundles went Eco, Quality, Eco from the non-default start.
C9_Witness ==
    /\ Applied(trace, "tileset") = << TRUE, FALSE, TRUE >>
    /\ Applied(trace, "scene") = << TRUE, FALSE, TRUE >>
    /\ startTileset = OtherTileset
    /\ startScene = OtherScene

\* The parameters of the performance profile table, bundle by bundle.
TableFields ==
    [ tileset |-> {"maximumScreenSpaceError", "skipLevelOfDetail", "preferLeaves",
                   "dynamicScreenSpaceError", "cacheBytes"},
      scene   |-> {"requestRenderMode", "targetFrameRate", "fxaa_enabled", "fog_enabled",
                   "highDynamicRange", "shadowMap_enabled", "globe_enableLighting"} ]

\* The fields the latest application assigned.
LastWritten ==
    LET last == trace[Len(trace)]
    IN  IF last.bundle = "tileset"
        THEN WrittenFields(tileset, TilesetWrites(last.highPerf))
        ELSE WrittenFields(scene, SceneWrites(last.highPerf, showGlobe))

\* Applying the latest profile of each bundle once more changes nothing.
Idempotent ==
    /\ Len(Applied(trace, "tileset")) > 0 =>
         LET h == Applied(trace, "tileset")[Len(Applied(trace, "tileset"))]
         IN  applyTilesetPerformance(tileset, h) = tileset
    /\ Len(Applied(trace, "scene")) > 0 =>
         LET h == Applied(trace, "scene")[Len(Applied(trace, "scene"))]
         IN  applyScenePerformance(scene, h, showGlobe) = scene

\* One application per bundle gives the same engine state in either order.
OrderIndependent ==
    (Len(Applied(trace, "tileset")) = 1 /\ Len(Applied(trace, "scene")) = 1) =>
        /\ tileset = applyTilesetPerformance(startTileset, Applied(trace, "tileset")[1])
        /\ scene = applyScenePerformance(startScene, Applied(trace, "scene")[1], showGlobe)

AssignedTableFields(bundle, highPerf) ==
    IF bundle = "scene" /\ ~highPerf
    THEN TableFields.scene \ {"shadowMap_enabled"}
    ELSE TableFields[bundle]

ProfileTable(highPerf) ==
    [ maximumScreenSpaceError |-> IF highPerf THEN 24 ELSE 4,
      skipLevelOfDetail       |-> highPerf,
      preferLeaves            |-> highPerf,
      dynamicScreenSpaceError |-> highPerf,
      cacheBytes              |-> IF highPerf THEN 256 * 1024 * 1024
                                              ELSE 1024 * 1024 * 1024,
      requestRenderMode       |-> highPerf,
      targetFrameRate         |-> 60,
      fxaa_enabled            |-> ~highPerf,
      fog_enabled             |-> ~highPerf,
      highDynamicRange        |-> ~highPerf,
      shadowMap_enabled       |-> ~highPerf,
      globe_enableLighting    |-> ~highPerf ]

\* The latest profile applied to a bundle (only used when there is one).
LastApplied(bundle) == Applied(trace, bundle)[Len(Applied(trace, bundle))]

\* The engine holds the table values of the latest profile applied to each
\* bundle, on the given scene parameters and on every tileset parameter.
HoldsTable(sceneFields) ==
    /\ Len(Applied(trace, "tileset")) > 0 =>
           \A f \in TableFields.tileset :
               tileset[f] = ProfileTable(LastApplied("tileset"))[f]
    /\ Len(Applied(trace, "scene")) > 0 =>
           \A f \in sceneFields :
               scene[f] = ProfileTable(LastApplied("scene"))[f]

---------------------------------------------------------------------------
(* The profile in the running component (Spec).                            *)

---------------------------------------------------------------------------
(* Wireframe (Spec).                                                       *)

---------------------------------------------------------------------------
(* Cursor and drag flags (SpecPointer).                                    *)

\* The cursor of each mode and drag state.
CursorTable(mode, pan, rotate) ==
    CASE mode = "orbit" -> "grab"
      [] mode = "zoom"  -> "zoom-in"
      [] mode = "pan" /\ pan -> "grabbing"
      [] mode = "pan" /\ ~pan /\ rotate -> ROTATE_CURSOR
      [] mode = "pan" /\ ~pan /\ ~rotate -> "grab"

---------------------------------------------------------------------------
(* Loading, framing and failure.                                           *)

\* C16 (SpecLoad): a ready callback clears the loading indicator at once and
\* moves no camera; when its timer fires with the viewer mounted and a
\* bounding sphere of radius R on the handle, exactly one camera move is
\* made, with heading 0, pitch -0.5 and range 2.5 R.
C16_FramingAfterDelay ==
    [][/\ scheduledTimers' > scheduledTimers =>
              (~isLoading' /\ cameraMoves' = cameraMoves)
       /\ (pendingTimers' < pendingTimers /\ mounted /\ viewerRef
               /\ boundingSphere \in Radii) =>
              /\ cameraMoves' = cameraMoves + 1
              /\ lastMove' = [heading |-> 0, pitch |-> -500,
                              range |-> (5 * boundingSphere * 1000) \div 2]]_vars

\* C16 witness: one ready callback with radius 40, its timer fired, one
\* camera move with range 100.
C16_Witness ==
    /\ mounted /\ viewerRef
    /\ callbacks = 1 /\ scheduledTimers = 1 /\ pendingTimers = 0
    /\ ~isLoading
    /\ boundingSphere = 40
    /\ cameraMoves = 1
    /\ lastMove = [heading |-> 0, pitch |-> -500, range |-> 100000]

\* C17 (SpecLoad): the loading indicator is visible exactly while no ready or
\* error callback has been processed, and the error surface is absent then.
C17_LoadingUntilFirstCallback ==
    /\ LoadingOverlay.visible = (callbacks = 0)
    /\ callbacks = 0 => ~ErrorOverlay.visible

\* C17 witness: the first callback, a ready one, has cleared the indicator.
C17_Witness ==
    /\ callbacks = 1
    /\ tilesetRef
    /\ ~LoadingOverlay.visible
    /\ ~ErrorOverlay.visible

\* The scene directories under /data of the tileset URLs.
DataSegments == { << "a", "l", "p", "h", "a" >>,
                  << "c", "o", "r", "u", "j", "e", "i", "r", "a" >> }

DataUrl(segment) ==
    << "/", "d", "a", "t", "a", "/" >> \o segment \o
    << "/", "t", "i", "l", "e", "s", "e", "t", ".", "j", "s", "o", "n" >>

DataDirectory(segment) ==
    << "p", "u", "b", "l", "i", "c", "/", "d", "a", "t", "a", "/" >> \o segment \o << "/" >>

\* C18 (SpecLoad): once an error callback has been processed the loading
\* indicator is absent and the error surface shows the message and the data
\* directory (public/data/<segment>/ for /data/<segment>/tileset.json); the
\* error callback schedules nothing and loading never starts again.
C18_ErrorSurface ==
    [][/\ error' # NoError =>
              LET overlay == ErrorOverlay'
              IN  /\ ~LoadingOverlay'.visible
                  /\ overlay.visible
                  /\ overlay.message = ErrorMessage
                  /\ \A seg \in DataSegments :
                         tilesetUrl' = DataUrl(seg) =>
                             overlay.directory = DataDirectory(seg)
       /\ error' # error => UNCHANGED timerVars
       /\ ~isLoading => ~isLoading']_vars

\* C18 witness: the load of /data/corujeira/tileset.json failed.
C18_Witness ==
    /\ callbacks = 1
    /\ error = ErrorMessage
    /\ ~isLoading
    /\ tilesetUrl = DataUrl(<< "c", "o", "r", "u", "j", "e", "i", "r", "a" >>)
    /\ ErrorOverlay.directory =
           DataDirectory(<< "c", "o", "r", "u", "j", "e", "i", "r", "a" >>)

\* A step of resetCamera that makes the framing move.
ResetMoves ==
    /\ ResetCamera
    /\ cameraMoves' = cameraMoves + 1
    /\ lastMove' = [heading |-> 0, pitch |-> -500,
                    range |-> (5 * boundingSphere * 1000) \div 2]

\* C19 as stated (SpecLoad): with a handle stored and a live viewer, resetCamera
\* makes the framing move; with no handle or no viewer it changes no state.
C19_ResetCameraAlwaysMoves ==
    /\ (mounted /\ viewerRef /\ ~destroyed /\ tilesetRef /\ cameraMoves < MaxMoves) =>
           /\ ENABLED ResetMoves
           /\ ~ENABLED (ResetCamera /\ ~ResetMoves)
    /\ (mounted /\ (~viewerRef \/ ~tilesetRef)) =>
           ~ENABLED (ResetCamera /\ vars' # vars)

\* C19 amended (SpecLoad): with a live viewer and a handle that has a bounding
\* sphere, resetCamera makes the framing move and can do nothing else; with
\* no handle, no bounding sphere or no viewer it changes no state.
C19_ResetCamera ==
    /\ (mounted /\ viewerRef /\ ~destroyed /\ tilesetRef /\ boundingSphere # NoSphere
            /\ cameraMoves < MaxMoves) =>
           /\ ENABLED ResetMoves
           /\ ~ENABLED (ResetCamera /\ ~ResetMoves)
    /\ (mounted /\ (~viewerRef \/ ~tilesetRef \/ boundingSphere = NoSphere)) =>
           ~ENABLED (ResetCamera /\ vars' # vars)

\* C19 witness: resetCamera has moved the camera a second time, the first
\* move being the initial framing.
C19_Witness ==
    /\ viewerRef /\ ~destroyed /\ tilesetRef
    /\ scheduledTimers = 1 /\ pendingTimers = 0
    /\ boundingSphere = 100
    /\ cameraMoves = 2
    /\ lastMove = [heading |-> 0, pitch |-> -500, range |-> 250000]

\* C20 (SpecLoad): a framing step that fails, because the camera call throws
\* or because the handle has no bounding sphere when the timer fires, leaves
\* the load state, the error message and the UI state as they were.
C20_FramingFailureContained ==
    [][(\/ warnings' > warnings
        \/ (pendingTimers' < pendingTimers /\ boundingSphere = NoSphere)) =>
           /\ UNCHANGED << isLoading, error, tilesetRef, callbacks >>
           /\ ErrorOverlay' = ErrorOverlay
           /\ UNCHANGED uiVars]_vars

\* C20 witness: the camera call has thrown, no error is shown, and the
\* wireframe is on on the handle.
C20_Witness ==
    /\ cameraFaulty
    /\ warnings > 0
    /\ error = NoError
    /\ ~isLoading
    /\ showWireframe /\ tileset.debugWireframe

---------------------------------------------------------------------------
(* The controls over a destroyed viewer, and the profile control           *)
(* (SpecNav).                                                              *)

\* Over a destroyed viewer the globe, wireframe and mode controls each set
\* their state to the value asked for.
TogglesSetState ==
    /\ ENABLED (ToggleGlobe /\ showGlobe' = ~showGlobe)
    /\ ENABLED (ToggleWireframe /\ showWireframe' = ~showWireframe)
    /\ \A m \in NavigationModes \ {navMode} : ENABLED (SetNavMode(m) /\ navMode' = m)

\* C21 as stated: with the viewer destroyed, the globe, wireframe, mode and
\* profile controls each set the component's state to the value asked for.
C21_TogglesUpdateState ==
    (mounted /\ destroyed) =>
        /\ TogglesSetState
        /\ ENABLED (toggleEcoMode /\ ecoMode' = ~ecoMode)

\* C21 amended: with the viewer destroyed, the globe, wireframe and mode
\* controls each set their state; the profile control leaves the profile as
\* it is and asks for the navigation, and the profile follows the eco
\* parameter when the search parameters change.
C21_TogglesUpdateStateProfileNavigates ==
    (mounted /\ destroyed) =>
        /\ TogglesSetState
        /\ ENABLED (toggleEcoMode /\ ecoMode' = ecoMode /\ href'.assigned)
        /\ \A p \in EcoParamValues \ {searchParams} :
               ENABLED (SearchParamsChange(p) /\ ecoMode' = (p # "false"))

\* C21 witness: over a destroyed viewer the globe, the wireframe and the mode
\* were switched, and the engine's globe was left as it was.
C21_Witness ==
    /\ mounted /\ destroyed
    /\ showGlobe /\ ~scene.globe_show
    /\ showWireframe
    /\ navMode = "zoom"

\* The values of the eco parameter in a query, in order.
EcoValues(q) == SelectSeq(q, LAMBDA x : x.k = "eco")

\* The query parameters other than eco, in order.
OtherParams(q) == SelectSeq(q, LAMBDA x : x.k # "eco")

\* The profile a page with query q mounts with: Quality iff eco is "false".
ProfileOfQuery(q) == ~(Len(EcoValues(q)) > 0 /\ EcoValues(q)[1].v = "false")

\* The query the profile control asks for on a page with query q.
ToggledQuery(q) ==
    URLSearchParamsSet(q, "eco", BooleanToString(~ProfileOfQuery(q)))

\* C22: a click of the profile control with profile flag e asks for the
\* current pathname with eco = NOT e and the other parameters as they are,
\* and changes neither the profile held nor an engine parameter; the page
\* reached by the navigation holds the profile asked for, and two clicks,
\* each followed by its navigation, give the profile e again.
C22_ProfileControlNavigates ==
    [][/\ (href' # href /\ href'.assigned) =>
              LET target == URLSearchParamsParse(href'.search)
              IN  /\ href'.path = pathname
                  /\ EcoValues(target) = << Param("eco", IF ecoMode THEN "false" ELSE "true") >>
                  /\ OtherParams(target) = OtherParams(query)
                  /\ UNCHANGED << ecoMode, searchParams, query, scene, tileset, controller >>
       /\ (href.assigned /\ ~href'.assigned) =>
              /\ pathname' = href.path
              /\ ecoMode' = ProfileOfQuery(URLSearchParamsParse(href.search))
              /\ ProfileOfQuery(ToggledQuery(query')) = ~ecoMode'
              /\ ProfileOfQuery(ToggledQuery(ToggledQuery(query'))) = ecoMode']_vars

\* C22 witness: on the page scene=alpha&eco=false&lang=pt the control has
\* asked for scene=alpha&eco=true&lang=pt, the profile still Quality.
C22_Witness ==
    /\ ~ecoMode
    /\ href.assigned
    /\ href.path = pathname
    /\ URLSearchParamsParse(href.search) =
           << Param("scene", "alpha"), Param("eco", "true"), Param("lang", "pt") >>

\* C23: the profile held is Quality exactly when the first eco parameter of
\* the page's query is the string false, and Eco otherwise, at mount and
\* after every change of the search parameters.
C23_ProfileFromEcoParameter == ecoMode = ProfileOfQuery(query)

\* C23 witness: eco=False (capital F) is Eco, applied to a live viewer.
C23_Witness ==
    /\ query = << Param("eco", "False"), Param("lang", "pt") >>
    /\ ecoMode
    /\ viewerRef /\ ~destroyed
    /\ scene.requestRenderMode

\* The scene name the model info badge shows.
sceneDisplayName == getSceneDisplayNameFromUrl(tilesetUrl)

\* url is text, "/", segment, file, with a segment that is not empty and
\* holds no slash; file begins with the slash that ends the segment.
HasForm(url, segment, file) ==
    /\ Len(segment) > 0
    /\ \A i \in 1..Len(segment) : segment[i] # "/"
    /\ Len(url) >= Len(segment) + Len(file) + 1
    /\ LET from == Len(url) - Len(file) - Len(segment)
       IN  /\ url[from] = "/"
           /\ SubSeq(url, from + 1, from + Len(segment)) = segment
           /\ SubSeq(url, from + Len(segment) + 1, Len(url)) = file

\* The texts of url that end where a file name as long as /tileset.json begins.
Pieces(url) ==
    { SubSeq(url, i, Len(url) - Len(TilesetJsonSuffix)) :
          i \in 1..(Len(url) - Len(TilesetJsonSuffix)) }

\* The last characters of url, as many as /tileset.json has.
Ending(url) ==
    IF Len(url) < Len(TilesetJsonSuffix) THEN << >>
    ELSE SubSeq(url, Len(url) - Len(TilesetJsonSuffix) + 1, Len(url))

\* name is segment with the first character in upper case and the others in
\* lower case.
IsCapitalized(name, segment) ==
    /\ Len(name) = Len(segment)
    /\ \A i \in 1..Len(name) :
           /\ name[i] \in DOMAIN LowerOf \cup DOMAIN UpperOf =>
                  name[i] \in (IF i = 1 THEN DOMAIN LowerOf ELSE DOMAIN UpperOf)
           /\ \/ name[i] = segment[i]
              \/ segment[i] \in DOMAIN LowerOf /\ name[i] = LowerOf[segment[i]]
              \/ segment[i] \in DOMAIN UpperOf /\ name[i] = UpperOf[segment[i]]

ModelName == << "M", "o", "d", "e", "l" >>

\* C29 as stated: a URL ending in /<segment>/tileset.json, the file name
\* spelled so, shows the capitalized segment, and every other URL shows Model.
C29_SceneName ==
    mounted =>
        LET segments == { seg \in Pieces(tilesetUrl) :
                              HasForm(tilesetUrl, seg, TilesetJsonSuffix) }
        IN  /\ \A seg \in segments : IsCapitalized(sceneDisplayName, seg)
            /\ segments = {} => sceneDisplayName = ModelName

\* C29 amended: a URL ending in /<segment>/tileset.json, the file name in
\* any mix of upper and lower case, shows the segment with its first
\* character in upper case and the others in lower case, whatever the case
\* of the segment; every other URL shows Model.
C29_SceneNameAnyCaseFile ==
    mounted =>
        LET file     == Ending(tilesetUrl)
            segments == { seg \in Pieces(tilesetUrl) :
                              /\ toLowerCase(file) = TilesetJsonSuffix
                              /\ HasForm(tilesetUrl, seg, file) }
        IN  /\ \A seg \in segments : IsCapitalized(sceneDisplayName, seg)
            /\ segments = {} => sceneDisplayName = ModelName

\* C29 witness: /PORTO/tileset.json is shown as Porto once the tileset is ready.
C29_Witness ==
    /\ mounted
    /\ ~isLoading
    /\ HasForm(tilesetUrl, << "P", "O", "R", "T", "O" >>, TilesetJsonSuffix)
    /\ sceneDisplayName = << "P", "o", "r", "t", "o" >>

\* C30 as stated: whenever an asset handle is stored, its debugWireframe flag
\* equals showWireframe, also when the wireframe control was used before the
\* tileset-ready callback arrived.
C30_WireframeFlagApplied ==
    (mounted /\ tilesetRef) => tileset.debugWireframe = showWireframe

\* The variant a navigation-mode button of the toolbar is drawn with.
NavSelectorVariant(m) == IF navMode = m THEN "glass-active" ELSE "glass"

\* The Orbit button is the active one and a live controller is bound as in
\* Orbit: left-drag rotates, right-drag translates, the wheel zooms.
OrbitInForce ==
    /\ NavSelectorVariant("orbit") = "glass-active"
    /\ NavSelectorVariant("pan") = "glass"
    /\ viewerRef =>
           /\ "LEFT_DRAG" \in Unmodified(controller.rotateEventTypes)
           /\ "RIGHT_DRAG" \in Unmodified(controller.translateEventTypes)
           /\ "WHEEL" \in Unmodified(controller.zoomEventTypes)

\* C25 as stated: on mount the navigation mode is Orbit, and it stays Orbit
\* (Orbit button active, Orbit bindings on a live controller) through every
\* step that is not a selection of another navigation mode.
C25_OrbitUntilSelection ==
    /\ OrbitInForce
    /\ [][(OrbitInForce /\ navMode' = navMode) => OrbitInForce']_vars

\* C24: the navigation mode changes only in a step that selects a mode, and
\* such a step leaves showGlobe, showWireframe, the profile and the load
\* state as they are; the load state (loading flag and error) changes only
\* in a tileset-ready or a tileset-error callback.
C24_UiFieldsIndependent ==
    [][/\ navMode' # navMode =>
              /\ \E m \in NavigationModes : SetNavMode(m)
              /\ UNCHANGED << showGlobe, showWireframe, ecoMode, searchParams,
                              isLoading, error >>
       /\ (\E m \in NavigationModes : SetNavMode(m)) =>
              UNCHANGED << showGlobe, showWireframe, ecoMode, isLoading, error >>
       /\ << isLoading, error >>' # << isLoading, error >> =>
              \/ \E r \in Radii : TilesetReady(r)
              \/ TilesetError]_vars

\* C24 witness: every field has been written by its own control, mid-drag,
\* after a camera reset, and the mode is the one selected.
C24_Witness ==
    /\ navMode = "zoom"
    /\ showGlobe /\ showWireframe
    /\ ~ecoMode
    /\ ~isLoading /\ error = NoError
    /\ href.assigned
    /\ isRotateDragging
    /\ cameraMoves > 0

---------------------------------------------------------------------------
(* Properties of the component with the in-memory performance toggle       *)
(* (SpecInMemory).                                                         *)

\* C26: the container's cursor is decided by the navigation mode alone:
\* grab in orbit, move in pan, zoom-in in zoom, whatever else has happened.
C26_CursorOfNavMode ==
    mounted =>
        containerCursor = CASE navMode = "orbit" -> "grab"
                            [] navMode = "pan"   -> "move"
                            [] navMode = "zoom"  -> "zoom-in"

\* C26 witness: pan mode selected after other modes, on a live viewer, the
\* cursor being move.
C26_Witness ==
    /\ mounted /\ viewerRef
    /\ navMode = "pan"
    /\ containerCursor = "move"
    /\ << Drag("LEFT_DRAG") >> = controller.translateEventTypes
    /\ showGlobe /\ ~performanceMode

\* C27: performance mode is on at mount; in every state a click of the
\* performance control would flip performanceMode, asking for no
\* navigation; and once the viewer is there the scene's requestRenderMode
\* is the current performanceMode.
C27_PerformanceModeInMemory ==
    /\ performanceMode = TRUE
    /\ [](mounted =>
              /\ ENABLED (InMemoryTogglePerformanceMode
                              /\ performanceMode' = ~performanceMode
                              /\ UNCHANGED navVars)
              /\ viewerRef => scene.requestRenderMode = performanceMode)

\* C27 witness: the control was clicked with viewer and tileset there;
\* performance mode is off and so is requestRenderMode.
C27_Witness ==
    /\ mounted /\ viewerRef /\ tilesetRef
    /\ ~performanceMode
    /\ ~scene.requestRenderMode
    /\ tileset.maximumScreenSpaceError = 4

\* C28 as stated: with the viewer there and performance mode on, the sky box
\* and the sky atmosphere are hidden.
C28_SkyHiddenInPerformanceMode ==
    (mounted /\ viewerRef /\ performanceMode) =>
        /\ ~scene.skyBox_show
        /\ ~scene.skyAtmosphere_show

\* C38 as stated: with the viewer there, the globe is shown in the scene
\* exactly when showGlobe says so, after any interleaving of globe and
\* performance-mode toggles.
C38_GlobeShownAsAsked ==
    (mounted /\ viewerRef) => scene.globe_show = showGlobe

\* The fields either branch of a profile function assigns.
ProfileFields ==
    [ tileset |-> WrittenFields(MockTileset, TilesetWrites(TRUE))
                      \cup WrittenFields(MockTileset, TilesetWrites(FALSE)),
      scene   |-> WrittenFields(MockScene, SceneWrites(TRUE, showGlobe))
                      \cup WrittenFields(MockScene, SceneWrites(FALSE, showGlobe)) ]

\* C31 as stated: on an engine that started as newly created, once a
\* profile has been applied every field a profile branch writes has the
\* value that the latest profile, applied to a newly created engine under
\* the same showGlobe, gives it: nothing of an earlier profile is left.
C31_ProfileStateFunctionOfProfile ==
    (startTileset = MockTileset /\ startScene = MockScene) =>
        /\ Len(Applied(trace, "tileset")) > 0 =>
               \A f \in ProfileFields.tileset :
                   tileset[f] =
                       applyTilesetPerformance(MockTileset, LastApplied("tileset"))[f]
        /\ Len(Applied(trace, "scene")) > 0 =>
               \A f \in ProfileFields.scene :
                   scene[f] =
                       applyScenePerformance(MockScene, LastApplied("scene"), showGlobe)[f]

\* C32: the loading indicator and the error surface are never visible
\* together; within the mount the loading flag, once false, stays false,
\* and an error message, once set, stays as it is.
C32_LoadingAndErrorSurfaces ==
    /\ [](~(LoadingOverlay.visible /\ ErrorOverlay.visible))
    /\ [][/\ ~isLoading => ~isLoading'
          /\ error # NoError => error' = error]_vars

\* C32 witness: an error callback after a ready one: the error surface is
\* shown, the indicator is not, and the asset handle is still stored.
C32_Witness ==
    /\ mounted
    /\ callbacks = 2
    /\ tilesetRef
    /\ ErrorOverlay.visible
    /\ ~LoadingOverlay.visible
    /\ pendingTimers = 0

\* No (gesture, modifier) pair stands in two binding lists of ctrl, or twice
\* in one.
BoundOnce(ctrl) ==
    /\ \A a, b \in BindingLists :
           a # b => Range(ctrl[a]) \cap Range(ctrl[b]) = {}
    /\ \A a \in BindingLists : Cardinality(Range(ctrl[a])) = Len(ctrl[a])

\* C33: a live controller binds each (gesture, modifier) pair to at most one
\* camera operation, and so do the binding lists either component gives a
\* newly created controller for each navigation mode.
C33_GestureBoundOnce ==
    /\ viewerRef => BoundOnce(controller)
    /\ \A m \in NavigationModes :
           /\ BoundOnce(ApplyControllerProps(MockController, controllerProps(m)))
           /\ BoundOnce(InMemoryConfigureCameraControls(MockController, m))

\* C33 witness: zoom mode selected on a live viewer; the left drag zooms and
\* stands in no other list.
C33_Witness ==
    /\ mounted /\ viewerRef /\ ~destroyed
    /\ navMode = "zoom"
    /\ Drag("LEFT_DRAG") \in Range(controller.zoomEventTypes)
    /\ Drag("LEFT_DRAG") \notin Range(controller.rotateEventTypes)
                              \cup Range(controller.translateEventTypes)
                              \cup Range(controller.tiltEventTypes)

\* C34 (SpecLoad): every step that calls viewBoundingSphere starts in a state
\* where the viewer reference and the asset handle are both stored, so after
\* a tileset-ready callback and with the loading flag cleared; a camera reset
\* while loading, or after a failed load with no ready callback before it,
\* makes no call.
C34_CameraMoveNeedsViewerAndAsset ==
    [][cameraMoves' # cameraMoves =>
           /\ viewerRef /\ tilesetRef
           /\ callbacks >= 1
           /\ ~isLoading
           /\ lastMove'.range = (5 * boundingSphere * 1000) \div 2]_vars

\* C34 witness: a ready callback, then an error callback, then a camera
\* reset that moved the camera while the framing timer was still pending.
C34_Witness ==
    /\ mounted /\ viewerRef /\ tilesetRef
    /\ error = ErrorMessage
    /\ scheduledTimers = 1 /\ pendingTimers = 1
    /\ cameraMoves = 1
    /\ lastMove # NoMove

\* C35: once the viewer reference is stored, the ref callback, invoked again
\* after any render, initialises nothing (the initialisation is not enabled
\* again within the mount); the reference is stored in a step from the state
\* without one, together with the background colour and the zoom bounds, and
\* no step resets it.
C35_ViewerInitialisedOnce ==
    /\ [](viewerRef => ~ENABLED ViewerReady)
    /\ [][/\ viewerRef => viewerRef'
          /\ (~viewerRef /\ viewerRef') =>
                 /\ scene'.backgroundColor = BackgroundColor
                 /\ controller'.minimumZoomDistance = 1
                 /\ controller'.maximumZoomDistance = 100000
                 /\ scene'.requestRenderMode = ecoMode
          /\ scene'.backgroundColor # scene.backgroundColor => ~viewerRef]_vars

\* C35 witness: the viewer was initialised and the component has rendered
\* again since (globe shown, zoom mode chosen, wireframe on).
C35_Witness ==
    /\ mounted /\ viewerRef
    /\ scene.backgroundColor = BackgroundColor
    /\ showGlobe /\ showWireframe
    /\ navMode = "zoom"
    /\ callbacks = 2

\* C36: whatever modes were selected, at most one set of pointer listeners
\* is registered, and while mounted it is the one that closes over the
\* current mode; after unmount none is registered, no pointer handler can
\* run, and no step changes the drag flags.
C36_OneListenerSet ==
    /\ [](/\ Len(listeners) <= 1
          /\ mounted => listeners = << navMode >>
          /\ ~mounted => /\ listeners = << >>
                         /\ ~ENABLED PointerUp
                         /\ \A b \in Buttons : ~ENABLED PointerDown(b))
    /\ [][~mounted => UNCHANGED << isPanDragging, isRotateDragging >>]_vars

\* C36 witness: unmounted after two mode switches and a press, the press
\* still recorded in the flag, and no listener left.
C36_Witness ==
    /\ ~mounted
    /\ navMode = "pan"
    /\ controller.tiltEventTypes = controllerProps("pan").tiltEventTypes
    /\ lastPointer.event = "down"
    /\ isPanDragging
    /\ listeners = << >>

\* C37: in orbit or zoom mode both drag flags are false.
C37_DragFlagsOnlyInPan ==
    navMode \in {"orbit", "zoom"} => (~isPanDragging /\ ~isRotateDragging)

===========================================================================
